---- MODULE Spec2Model ----
(***************************************************************************)
(* Interview dialogue managers of the AI startup evaluator.                *)
(*                                                                         *)
(* Three variants of the dialogue manager are modelled, each with its own  *)
(* specification over its own variables (the variables of the others stay  *)
(* at their idle values):                                                  *)
(*   Spec      the tool functions of voice_interview_agent.py (the nine-   *)
(*             topic flow: process_founder_response and its helpers);      *)
(*             SpecSessions runs the same functions on several             *)
(*             session_data dicts at once, SpecTopics follows one session  *)
(*             over several topics, SpecQuestions calls the question       *)
(*             generators on their own, SpecIds follows the session ids    *)
(*             under a clock;                                              *)
(*   SpecLive  the console drivers LiveTextInterviewer of                  *)
(*             live_text_interview.py and RealVoiceInterviewer of          *)
(*             real_voice_interview.py;                                    *)
(*   SpecAdk   the class InterviewAgent of adk_interview_agent.py.         *)
(* SpecConduct is the coroutine StartupInterviewAgent.conduct_interview of *)
(* startup-evaluation-platform/agents/interview_agent.py.                  *)
(*                                                                         *)
(* Scores are kept as exact integers: a score s of the source is the       *)
(* integer 100*s (hundredths) after round(s, 2); a sentiment is the        *)
(* reduced fraction <<num, den>>.                                          *)
(*                                                                         *)
(* An utterance is abstracted to what the source reads of it: its word     *)
(* count len(response.split()) and the set of searched strings (lexicon    *)
(* words, indicators, keywords) that occur in response.lower().            *)
(***************************************************************************)
EXTENDS Integers, Sequences, FiniteSets, TLC

VARIABLES
    \* ---- voice_interview_agent.py: the session_data dict
    current_topic,          \* session_data["current_topic"]
    conversation_history,   \* session_data["conversation_history"]
    questions_asked,        \* session_data["questions_asked"]
    insights_gathered,      \* session_data["insights_gathered"] (keys; every value is True)
    rapport_level,          \* session_data["rapport_level"], hundredths
    origin,                 \* "start": built by start_live_voice_interview; "caller": dict built by the caller
    result,                 \* what the last process_founder_response call returned
    heap,                   \* the objects of several session_data dicts, by address
    session_refs,                   \* the addresses of the session_data dicts callers hold, oldest first
    \* ---- live_text_interview.py / real_voice_interview.py: one interviewer object
    interviewer,            \* the class of the object: "LiveTextInterviewer" or "RealVoiceInterviewer"
    live_session_data,      \* self.session_data
    exchange_count,         \* the local exchange_count of the conduct method
    live_pc,                \* where the conduct method waits: "constructed", "mic_test", "listen",
                            \* "final_listen", "done" (summary printed), "aborted" (microphone test failed)
    heard,                  \* the input the last listen_for_response call consumed
    transcript,             \* what the interviewer has said to the founder so far
    summary,                \* what print_interview_summary printed
    \* ---- adk_interview_agent.py: one InterviewAgent and one session
    memory,                 \* the record self.memory holds for the session
    memory_kind,            \* which Memory class the import resolved to
    db_responses,           \* rows of InterviewResponse, in insertion order
    db_session,             \* the row of InterviewSession
    clock,                  \* datetime.now()
    calls,                  \* number of process_founder_response calls made
    completion_runs,        \* number of _complete_interview runs
    reports,                \* the reports _generate_summary_report returned, oldest first
    adk_result,             \* what the last InterviewAgent call returned
    \* ---- startup-evaluation-platform/agents/interview_agent.py: one conduct_interview call
    conduct_pc,             \* where the coroutine is: "not_called", "section", "finalize",
                            \* "report", "returned", "raised"
    section_index,          \* position of the for loop in InterviewSection
    interview_session,      \* the InterviewSession object: status and number of responses
    saved,                  \* what _save_session wrote to the session's document, oldest first
    \* ---- voice_interview_agent.py: the sessions start_live_voice_interview created
    wall_clock,             \* datetime.now(), in ticks of 1/TicksPerSecond second
    created                 \* the session_data dicts returned, oldest first

voice_vars == <<current_topic, conversation_history, questions_asked, insights_gathered,
                rapport_level, origin, result, heap, session_refs>>

live_vars == <<interviewer, live_session_data, exchange_count, live_pc, heard, transcript,
               summary>>

adk_vars == <<memory, memory_kind, db_responses, db_session, clock, calls, completion_runs,
              reports, adk_result>>

platform_vars == <<conduct_pc, section_index, interview_session, saved>>

id_vars == <<wall_clock, created>>

vars == <<voice_vars, live_vars, adk_vars, platform_vars, id_vars>>

\* the value of a variable that holds nothing (Python's None)
None == [none |-> TRUE]

\* the variables of a variant that is not running
SessionIdle ==
    /\ current_topic = "introduction"
    /\ conversation_history = <<>>
    /\ questions_asked = <<>>
    /\ insights_gathered = {}
    /\ rapport_level = 50
    /\ origin = "idle"
    /\ result = None

\* no session_data dict has been allocated
HeapIdle ==
    /\ heap = <<>>
    /\ session_refs = <<>>

VoiceIdle == SessionIdle /\ HeapIdle

LiveIdle ==
    /\ interviewer = "idle"
    /\ live_session_data = None
    /\ exchange_count = 0
    /\ live_pc = "idle"
    /\ heard = None
    /\ transcript = <<>>
    /\ summary = None

PlatformIdle ==
    /\ conduct_pc = "not_called"
    /\ section_index = 0
    /\ interview_session = None
    /\ saved = <<>>

IdsIdle == wall_clock = 0 /\ created = <<>>

OthersIdle == PlatformIdle /\ IdsIdle

AdkIdle ==
    /\ memory = None
    /\ memory_kind = "idle"
    /\ db_responses = <<>>
    /\ db_session = None
    /\ clock = 0
    /\ calls = 0
    /\ completion_runs = 0
    /\ reports = <<>>
    /\ adk_result = None

(***************************************************************************)
(* Bounds of the model.                                                    *)
(***************************************************************************)
\* number of process_founder_response calls explored on one session
MaxExchanges == 2

\* number of InterviewAgent.process_founder_response calls explored on one session
MaxCalls == 7

\* number of direct calls of the report synthesizer explored
MaxReports == 2

\* number of session_data dicts alive at once
MaxSessions == 2

\* number of questions already asked on a topic when the question generator is called
MaxAsked == 5

(***************************************************************************)
(* Arithmetic helpers: Python's min, and round(x, 2) of a rational x.      *)
(***************************************************************************)
Min(a, b) == IF a <= b THEN a ELSE b

Max(a, b) == IF a >= b THEN a ELSE b

RECURSIVE GCD(_, _)
GCD(a, b) == IF b = 0 THEN a ELSE GCD(b, a % b)

\* the fraction n/d in lowest terms (d > 0, n >= 0)
Frac(n, d) == LET g == GCD(n, d) IN <<n \div g, d \div g>>

FracAdd(x, y) == Frac(x[1] * y[2] + y[1] * x[2], x[2] * y[2])

\* round(n/d) to the nearest integer, a tie going to the even neighbour
\* (Python's round; n >= 0, d > 0)
RoundHalfEven(n, d) ==
    LET q == n \div d
        r == n % d
    IN  IF 2 * r < d THEN q
        ELSE IF 2 * r > d THEN q + 1
        ELSE IF q % 2 = 0 THEN q ELSE q + 1

IsPrefix(s, t) == Len(s) <= Len(t) /\ SubSeq(t, 1, Len(s)) = s

(***************************************************************************)
(* The topic flow.                                                         *)
(***************************************************************************)
topic_flow ==
    <<"introduction", "business_model", "market_opportunity", "traction_metrics",
      "team_execution", "financial_planning", "product_development",
      "risks_challenges", "vision_strategy">>

Terminal == "conclusion"

AllTopics == {topic_flow[i] : i \in 1..Len(topic_flow)} \cup {Terminal}

\* topic_flow.index(topic); -1 stands for the ValueError of a topic outside the list
FlowIndex(topic) ==
    IF \E i \in 1..Len(topic_flow) : topic_flow[i] = topic
    THEN (CHOOSE i \in 1..Len(topic_flow) : topic_flow[i] = topic) - 1
    ELSE -1

\* position along the fixed order, the terminal marker last
Position(topic) == IF topic = Terminal THEN Len(topic_flow) ELSE FlowIndex(topic)

\* faulty variant: steps back along the flow instead of forward
determine_next_topic_backwards(topic) ==
    LET current_index == FlowIndex(topic)
    IN  IF current_index <= 0 THEN "introduction" ELSE topic_flow[current_index]

\* faulty variant: ends the flow on a marker other than "conclusion"
determine_next_topic_other_marker(topic) ==
    LET current_index == FlowIndex(topic)
    IN  IF current_index = -1 THEN "business_model"
        ELSE IF current_index < Len(topic_flow) - 1 THEN topic_flow[current_index + 2]
        ELSE "completed"

determine_next_topic(topic) ==
    LET current_index == FlowIndex(topic)
    IN  IF current_index = -1 THEN "business_model"
        ELSE IF current_index < Len(topic_flow) - 1 THEN topic_flow[current_index + 2]
        ELSE Terminal

(***************************************************************************)
(* analyze_response_content and its helpers.                               *)
(***************************************************************************)
positive_words ==
    {"excited", "confident", "growing", "successful", "strong", "excellent",
     "passionate", "love", "amazing", "fantastic"}

negative_words ==
    {"challenging", "difficult", "struggling", "worried", "concerned", "problem",
     "issue", "hard", "tough"}

specificity_indicators ==
    {"for example", "specifically", "$", "%", "customers", "months", "years"}

\* topic_keywords of extract_topic_insights
topic_keywords(topic) ==
    CASE topic = "business_model" ->
            {"revenue", "pricing", "customers", "sales", "subscription", "b2b", "b2c"}
      [] topic = "market_opportunity" ->
            {"market", "competitors", "competition", "differentiate", "market share",
             "tam", "sam"}
      [] topic = "traction_metrics" ->
            {"revenue", "customers", "retention", "growth", "metrics", "kpi", "mrr", "arr"}
      [] topic = "team_execution" ->
            {"team", "founder", "hiring", "culture", "experience", "cto", "ceo"}
      [] topic = "financial_planning" ->
            {"burn rate", "funding", "runway", "profitability", "projections", "cash"}
      [] topic = "product_development" ->
            {"product", "roadmap", "feedback", "technical", "development", "features"}
      [] topic = "risks_challenges" ->
            {"risk", "challenge", "regulatory", "competitor", "problem", "threat"}
      [] topic = "vision_strategy" ->
            {"vision", "strategy", "expansion", "partnership", "future", "exit"}
      [] OTHER -> {}

\* topic_keywords of calculate_topic_coverage (its own, shorter table)
expected_keywords(topic) ==
    CASE topic = "business_model" -> {"revenue", "pricing", "customers", "sales"}
      [] topic = "market_opportunity" ->
            {"market", "competitors", "competition", "differentiate"}
      [] topic = "traction_metrics" -> {"revenue", "customers", "retention", "growth"}
      [] topic = "team_execution" -> {"team", "founder", "hiring", "culture"}
      [] topic = "financial_planning" -> {"burn rate", "funding", "runway", "profitability"}
      [] topic = "product_development" -> {"product", "roadmap", "feedback", "technical"}
      [] topic = "risks_challenges" -> {"risk", "challenge", "regulatory", "competitor"}
      [] topic = "vision_strategy" -> {"vision", "strategy", "expansion", "partnership"}
      [] OTHER -> {}

\* "keyword in response_lower" is a substring test: a text holding "competitors"
\* holds "competitor", one holding "market share" holds "market".  These are the
\* only searched strings that lie inside another searched string.
SubstringClosure(toks) ==
    toks \cup (IF "competitors" \in toks THEN {"competitor"} ELSE {})
         \cup (IF "market share" \in toks THEN {"market"} ELSE {})

\* searched strings that hold a blank, so that a text holding one has two words
TwoWordStrings == {"for example", "market share", "burn rate"}

\* an utterance u = [wc |-> len(response.split()), toks |-> searched strings found]
\* is the abstraction of some Python string iff:
WellFormedUtterance(u) ==
    /\ u.toks = SubstringClosure(u.toks)
    /\ (u.wc = 0 => u.toks = {})
    /\ (u.toks \cap TwoWordStrings # {} => u.wc >= 2)

extract_topic_insights(u, topic) == topic_keywords(topic) \cap u.toks

sentiment_of(u) ==
    LET positive_count == Cardinality(positive_words \cap u.toks)
        negative_count == Cardinality(negative_words \cap u.toks)
    IN  IF positive_count + negative_count > 0
        THEN Frac(positive_count, positive_count + negative_count)
        ELSE <<1, 2>>

\* faulty variant: a response of fewer than 20 words gets no length score
assess_response_quality_no_short_score(u, topic, word_count) ==
    LET length_score40 ==
            IF word_count < 20 THEN 0
            ELSE IF word_count < 50 THEN 24
            ELSE IF word_count <= 200 THEN 40
            ELSE 32
        specificity_count == Cardinality(specificity_indicators \cap u.toks)
    IN  length_score40 + Min(20 * specificity_count, 60)

\* hundredths; length_score*0.4 is 8, 24, 40 or 32 and specificity_score*0.6 is
\* min(20*count, 60), so the sum is a whole number of hundredths and round(.., 2)
\* changes nothing
assess_response_quality(u, topic, word_count) ==
    LET length_score40 ==
            IF word_count < 20 THEN 8
            ELSE IF word_count < 50 THEN 24
            ELSE IF word_count <= 200 THEN 40
            ELSE 32
        specificity_count == Cardinality(specificity_indicators \cap u.toks)
    IN  length_score40 + Min(20 * specificity_count, 60)

\* faulty variant: a follow-up is asked for on low quality only, not on a short response
analyze_response_content_quality_only(u, topic) ==
    LET word_count == u.wc
        quality_score == assess_response_quality(u, topic, word_count)
    IN  [word_count      |-> word_count,
         sentiment_score |-> sentiment_of(u),
         quality_score   |-> quality_score,
         insights        |-> extract_topic_insights(u, topic),
         needs_follow_up |-> (quality_score < 60)]

analyze_response_content(u, topic) ==
    LET word_count == u.wc
        quality_score == assess_response_quality(u, topic, word_count)
    IN  [word_count      |-> word_count,
         sentiment_score |-> sentiment_of(u),
         quality_score   |-> quality_score,
         insights        |-> extract_topic_insights(u, topic),
         needs_follow_up |-> (quality_score < 60 \/ word_count < 20)]

(***************************************************************************)
(* Conversation history entries.  Timestamps and audio_metadata, which no  *)
(* function reads back, are left out.                                      *)
(***************************************************************************)
FounderEntry(u, topic, analysis) ==
    [speaker |-> "founder", content |-> u, topic |-> topic, analysis |-> analysis]

InterviewerEntry(next_interaction) ==
    [speaker       |-> "interviewer",
     content       |-> next_interaction.message,
     topic         |-> next_interaction.topic,
     question_type |-> next_interaction.type]

IsFounder(msg) == msg.speaker = "founder"

\* [msg for msg in conversation_history if msg["speaker"] == "founder"]
FounderResponses(history) == SelectSeq(history, IsFounder)

\* len(msg["content"].split())
WordsOf(msg) == msg.content.wc

\* msg.get("analysis", {}).get("sentiment_score", 0.5)
SentimentOf(msg) == msg.analysis.sentiment_score

\* sum(len(msg["content"].split()) for msg in msgs)
RECURSIVE SumWords(_)
SumWords(msgs) == IF msgs = <<>> THEN 0 ELSE WordsOf(Head(msgs)) + SumWords(Tail(msgs))

\* sum(sentiment_scores)
RECURSIVE SumSentiments(_)
SumSentiments(msgs) ==
    IF msgs = <<>> THEN <<0, 1>>
    ELSE FracAdd(SentimentOf(Head(msgs)), SumSentiments(Tail(msgs)))

(***************************************************************************)
(* calculate_rapport_level, in hundredths.                                 *)
(* With n founder messages, W their words and S the sum of their           *)
(* sentiments: round(min(W/n/100, 1)*0.4 + (S/n)*0.6, 2).                  *)
(***************************************************************************)
\* the division by len(founder_responses) raises ZeroDivisionError
calculate_rapport_level_raises(history) ==
    Len(history) >= 2 /\ FounderResponses(history) = <<>>

\* faulty variant: the length score is not capped at 1.0
calculate_rapport_level_uncapped(history) ==
    IF Len(history) < 2 THEN 50
    ELSE LET founder_responses == FounderResponses(history)
             n == Len(founder_responses)
             W == SumWords(founder_responses)
             S == SumSentiments(founder_responses)
         IN  RoundHalfEven(2 * W * S[2] + 300 * S[1], 5 * n * S[2])

calculate_rapport_level(history) ==
    IF Len(history) < 2 THEN 50
    ELSE LET founder_responses == FounderResponses(history)
             n == Len(founder_responses)
             W == SumWords(founder_responses)
             S == SumSentiments(founder_responses)
         IN  \* length_score*0.4*100 = 40*min(W/(100 n), 1) = min(2W, 200n)/(5n)
             \* avg_sentiment*0.6*100 = 60*S/n
             RoundHalfEven(Min(2 * W, 200 * n) * S[2] + 300 * S[1], 5 * n * S[2])

(***************************************************************************)
(* calculate_topic_coverage, in hundredths.                                *)
(***************************************************************************)
\* faulty variant: counts the words of the latest message on the topic, not of all of them
calculate_topic_coverage_latest_only(session_data, topic) ==
    LET OnTopic(msg) == msg.topic = topic /\ msg.speaker = "founder"
        topic_messages == SelectSeq(session_data.conversation_history, OnTopic)
        total_words == WordsOf(topic_messages[Len(topic_messages)])
        expected == expected_keywords(topic)
        covered_keywords == Cardinality(expected \cap session_data.insights_gathered)
    IN  IF topic_messages = <<>> THEN 0
        ELSE IF expected = {}
             THEN RoundHalfEven(4 * Min(total_words, 150), 15)
             ELSE RoundHalfEven(
                      4 * Min(total_words, 150) * Cardinality(expected)
                          + 900 * covered_keywords,
                      15 * Cardinality(expected))

\* faulty variant: a topic without keywords counts as fully covered by keywords
calculate_topic_coverage_no_keywords_full(session_data, topic) ==
    LET OnTopic(msg) == msg.topic = topic /\ msg.speaker = "founder"
        topic_messages == SelectSeq(session_data.conversation_history, OnTopic)
        total_words == SumWords(topic_messages)
        expected == expected_keywords(topic)
        covered_keywords == Cardinality(expected \cap session_data.insights_gathered)
    IN  IF topic_messages = <<>> THEN 0
        ELSE IF expected = {}
             THEN 60 + RoundHalfEven(4 * Min(total_words, 150), 15)
             ELSE RoundHalfEven(
                      4 * Min(total_words, 150) * Cardinality(expected)
                          + 900 * covered_keywords,
                      15 * Cardinality(expected))

calculate_topic_coverage(session_data, topic) ==
    LET OnTopic(msg) == msg.topic = topic /\ msg.speaker = "founder"
        topic_messages == SelectSeq(session_data.conversation_history, OnTopic)
        total_words == SumWords(topic_messages)
        expected == expected_keywords(topic)
        covered_keywords == Cardinality(expected \cap session_data.insights_gathered)
    IN  IF topic_messages = <<>> THEN 0
        ELSE \* word_score*0.4*100 = 40*min(total_words, 150)/150
             \* keyword_coverage*0.6*100 = 60*covered/len(expected), 0 without keywords
             IF expected = {}
             THEN RoundHalfEven(4 * Min(total_words, 150), 15)
             ELSE RoundHalfEven(
                      4 * Min(total_words, 150) * Cardinality(expected)
                          + 900 * covered_keywords,
                      15 * Cardinality(expected))

(***************************************************************************)
(* The question generator.  A message is named by the table it is taken    *)
(* from, the topic that keys the table and its index in the list.          *)
(***************************************************************************)
Message(kind, topic, to, index) ==
    [kind |-> kind, topic |-> topic, to |-> to, index |-> index]

\* the topics that have a list in the follow_ups table of generate_follow_up_question
FollowUpTableTopics ==
    {"introduction", "business_model", "market_opportunity", "traction_metrics"}

\* every list of that table has three entries
FollowUpTableLen == 3

\* faulty variant: looks the topic up without the fallback to the introduction's list
generate_follow_up_question_no_fallback(session_data, response_analysis) ==
    LET topic == session_data.current_topic
        index == Len(session_data.questions_asked) % FollowUpTableLen
    IN  [message |-> Message("follow_ups_table", topic, topic, index),
         topic   |-> topic,
         type    |-> "follow_up"]

generate_follow_up_question(session_data, response_analysis) ==
    LET topic == session_data.current_topic
        table_topic == IF topic \in FollowUpTableTopics THEN topic ELSE "introduction"
        index == Len(session_data.questions_asked) % FollowUpTableLen
    IN  [message |-> Message("follow_ups_table", table_topic, table_topic, index),
         topic   |-> topic,
         type    |-> "follow_up"]

\* the topics that get_interview_questions has banks for
BankTopics ==
    {"business_model", "market_opportunity", "traction_metrics", "team_execution",
     "financial_planning", "product_development", "risks_challenges", "vision_strategy"}

\* len(questions[topic]["primary"]), [] for a topic without banks
PrimaryLen(topic) == IF topic \in BankTopics THEN 4 ELSE 0

\* len of questions[topic]["follow_ups"], or of the default ["Can you tell me more about that?"]
FollowUpsLen(topic) == IF topic \in BankTopics THEN 3 ELSE 1

generate_topic_continuation(session_data, topic) ==
    LET Asked(msg) == msg.topic = topic /\ msg.speaker = "interviewer"
        questions_asked_count ==
            Len(SelectSeq(session_data.conversation_history, Asked))
    IN  [message |->
            IF questions_asked_count < PrimaryLen(topic)
            THEN Message("primary", topic, topic, questions_asked_count)
            ELSE IF topic \in BankTopics
                 THEN Message("follow_ups", topic, topic,
                              questions_asked_count % FollowUpsLen(topic))
                 ELSE Message("default_follow_up", topic, topic,
                              questions_asked_count % FollowUpsLen(topic)),
         topic   |-> topic,
         type    |-> "continuation"]

\* the pairs that key the transitions table
HasTransitionTemplate(from, to) ==
    /\ FlowIndex(from) >= 0
    /\ FlowIndex(from) < Len(topic_flow) - 1
    /\ to = topic_flow[FlowIndex(from) + 2]

generate_topic_transition(session_data, topic, next_topic) ==
    [message |->
        IF HasTransitionTemplate(topic, next_topic)
        THEN Message("transitions", topic, next_topic, 0)
        ELSE Message("generic_transition", topic, next_topic, 0),
     topic   |-> next_topic,
     type    |-> "transition"]

\* faulty variant: moves to the next topic without looking at the coverage
generate_next_conversational_question_no_coverage(session_data, response_analysis) ==
    IF response_analysis.needs_follow_up
    THEN generate_follow_up_question(session_data, response_analysis)
    ELSE generate_topic_transition(
             session_data, session_data.current_topic,
             determine_next_topic(session_data.current_topic))

generate_next_conversational_question(session_data, response_analysis) ==
    IF response_analysis.needs_follow_up
    THEN generate_follow_up_question(session_data, response_analysis)
    ELSE IF calculate_topic_coverage(session_data, session_data.current_topic) < 70
         THEN generate_topic_continuation(session_data, session_data.current_topic)
         ELSE generate_topic_transition(
                  session_data, session_data.current_topic,
                  determine_next_topic(session_data.current_topic))

\* calculate_interview_progress reads current_index after the except branch that
\* leaves it unbound: UnboundLocalError for a topic outside topic_flow
calculate_interview_progress_raises(topic) == FlowIndex(topic) = -1

(***************************************************************************)
(* A response given as text.  A text is the sequence of its characters;   *)
(* TextAbstraction computes from it what the functions above read: the     *)
(* number of words of response.split() and the searched strings that       *)
(* "in response.lower()" finds.                                            *)
(***************************************************************************)
UpperCase ==
    <<"A", "B", "C", "D", "E", "F", "G", "H", "I", "J", "K", "L", "M", "N", "O", "P", "Q",
      "R", "S", "T", "U", "V", "W", "X", "Y", "Z">>

LowerCase ==
    <<"a", "b", "c", "d", "e", "f", "g", "h", "i", "j", "k", "l", "m", "n", "o", "p", "q",
      "r", "s", "t", "u", "v", "w", "x", "y", "z">>

\* str.lower()
str_lower(text) ==
    [i \in 1..Len(text) |->
        IF \E k \in 1..Len(UpperCase) : UpperCase[k] = text[i]
        THEN LowerCase[CHOOSE k \in 1..Len(UpperCase) : UpperCase[k] = text[i]]
        ELSE text[i]]

\* faulty variant: finds the string at the start of the text only
str_contains_at_start(text, sub) ==
    /\ Len(sub) <= Len(text)
    /\ \A j \in 1..Len(sub) : text[j] = sub[j]

\* "sub in text"
str_contains(text, sub) ==
    \E i \in 0..(Len(text) - Len(sub)) : \A j \in 1..Len(sub) : text[i + j] = sub[j]

\* len(text.split()): the number of maximal runs of characters other than blanks
str_split_len(text) ==
    Cardinality({i \in 1..Len(text) : text[i] # " " /\ (i = 1 \/ text[i - 1] = " ")})

\* every string the analysis searches a response for
SearchedStrings ==
    positive_words \cup negative_words \cup specificity_indicators
        \cup UNION {topic_keywords(topic) : topic \in AllTopics}

\* the characters of a searched string
Spelling(word) ==
    CASE word = "excited" -> <<"e", "x", "c", "i", "t", "e", "d">>
      [] word = "confident" -> <<"c", "o", "n", "f", "i", "d", "e", "n", "t">>
      [] word = "growing" -> <<"g", "r", "o", "w", "i", "n", "g">>
      [] word = "successful" -> <<"s", "u", "c", "c", "e", "s", "s", "f", "u", "l">>
      [] word = "strong" -> <<"s", "t", "r", "o", "n", "g">>
      [] word = "excellent" -> <<"e", "x", "c", "e", "l", "l", "e", "n", "t">>
      [] word = "passionate" -> <<"p", "a", "s", "s", "i", "o", "n", "a", "t", "e">>
      [] word = "love" -> <<"l", "o", "v", "e">>
      [] word = "amazing" -> <<"a", "m", "a", "z", "i", "n", "g">>
      [] word = "fantastic" -> <<"f", "a", "n", "t", "a", "s", "t", "i", "c">>
      [] word = "challenging" -> <<"c", "h", "a", "l", "l", "e", "n", "g", "i", "n", "g">>
      [] word = "difficult" -> <<"d", "i", "f", "f", "i", "c", "u", "l", "t">>
      [] word = "struggling" -> <<"s", "t", "r", "u", "g", "g", "l", "i", "n", "g">>
      [] word = "worried" -> <<"w", "o", "r", "r", "i", "e", "d">>
      [] word = "concerned" -> <<"c", "o", "n", "c", "e", "r", "n", "e", "d">>
      [] word = "problem" -> <<"p", "r", "o", "b", "l", "e", "m">>
      [] word = "issue" -> <<"i", "s", "s", "u", "e">>
      [] word = "hard" -> <<"h", "a", "r", "d">>
      [] word = "tough" -> <<"t", "o", "u", "g", "h">>
      [] word = "for example" -> <<"f", "o", "r", " ", "e", "x", "a", "m", "p", "l", "e">>
      [] word = "specifically" -> <<"s", "p", "e", "c", "i", "f", "i", "c", "a", "l", "l", "y">>
      [] word = "$" -> <<"$">>
      [] word = "%" -> <<"%">>
      [] word = "customers" -> <<"c", "u", "s", "t", "o", "m", "e", "r", "s">>
      [] word = "months" -> <<"m", "o", "n", "t", "h", "s">>
      [] word = "years" -> <<"y", "e", "a", "r", "s">>
      [] word = "revenue" -> <<"r", "e", "v", "e", "n", "u", "e">>
      [] word = "pricing" -> <<"p", "r", "i", "c", "i", "n", "g">>
      [] word = "sales" -> <<"s", "a", "l", "e", "s">>
      [] word = "subscription" -> <<"s", "u", "b", "s", "c", "r", "i", "p", "t", "i", "o", "n">>
      [] word = "b2b" -> <<"b", "2", "b">>
      [] word = "b2c" -> <<"b", "2", "c">>
      [] word = "market" -> <<"m", "a", "r", "k", "e", "t">>
      [] word = "competitors" -> <<"c", "o", "m", "p", "e", "t", "i", "t", "o", "r", "s">>
      [] word = "competition" -> <<"c", "o", "m", "p", "e", "t", "i", "t", "i", "o", "n">>
      [] word = "differentiate" -> <<"d", "i", "f", "f", "e", "r", "e", "n", "t", "i", "a", "t", "e">>
      [] word = "market share" -> <<"m", "a", "r", "k", "e", "t", " ", "s", "h", "a", "r", "e">>
      [] word = "tam" -> <<"t", "a", "m">>
      [] word = "sam" -> <<"s", "a", "m">>
      [] word = "retention" -> <<"r", "e", "t", "e", "n", "t", "i", "o", "n">>
      [] word = "growth" -> <<"g", "r", "o", "w", "t", "h">>
      [] word = "metrics" -> <<"m", "e", "t", "r", "i", "c", "s">>
      [] word = "kpi" -> <<"k", "p", "i">>
      [] word = "mrr" -> <<"m", "r", "r">>
      [] word = "arr" -> <<"a", "r", "r">>
      [] word = "team" -> <<"t", "e", "a", "m">>
      [] word = "founder" -> <<"f", "o", "u", "n", "d", "e", "r">>
      [] word = "hiring" -> <<"h", "i", "r", "i", "n", "g">>
      [] word = "culture" -> <<"c", "u", "l", "t", "u", "r", "e">>
      [] word = "experience" -> <<"e", "x", "p", "e", "r", "i", "e", "n", "c", "e">>
      [] word = "cto" -> <<"c", "t", "o">>
      [] word = "ceo" -> <<"c", "e", "o">>
      [] word = "burn rate" -> <<"b", "u", "r", "n", " ", "r", "a", "t", "e">>
      [] word = "funding" -> <<"f", "u", "n", "d", "i", "n", "g">>
      [] word = "runway" -> <<"r", "u", "n", "w", "a", "y">>
      [] word = "profitability" -> <<"p", "r", "o", "f", "i", "t", "a", "b", "i", "l", "i", "t", "y">>
      [] word = "projections" -> <<"p", "r", "o", "j", "e", "c", "t", "i", "o", "n", "s">>
      [] word = "cash" -> <<"c", "a", "s", "h">>
      [] word = "product" -> <<"p", "r", "o", "d", "u", "c", "t">>
      [] word = "roadmap" -> <<"r", "o", "a", "d", "m", "a", "p">>
      [] word = "feedback" -> <<"f", "e", "e", "d", "b", "a", "c", "k">>
      [] word = "technical" -> <<"t", "e", "c", "h", "n", "i", "c", "a", "l">>
      [] word = "development" -> <<"d", "e", "v", "e", "l", "o", "p", "m", "e", "n", "t">>
      [] word = "features" -> <<"f", "e", "a", "t", "u", "r", "e", "s">>
      [] word = "risk" -> <<"r", "i", "s", "k">>
      [] word = "challenge" -> <<"c", "h", "a", "l", "l", "e", "n", "g", "e">>
      [] word = "regulatory" -> <<"r", "e", "g", "u", "l", "a", "t", "o", "r", "y">>
      [] word = "competitor" -> <<"c", "o", "m", "p", "e", "t", "i", "t", "o", "r">>
      [] word = "threat" -> <<"t", "h", "r", "e", "a", "t">>
      [] word = "vision" -> <<"v", "i", "s", "i", "o", "n">>
      [] word = "strategy" -> <<"s", "t", "r", "a", "t", "e", "g", "y">>
      [] word = "expansion" -> <<"e", "x", "p", "a", "n", "s", "i", "o", "n">>
      [] word = "partnership" -> <<"p", "a", "r", "t", "n", "e", "r", "s", "h", "i", "p">>
      [] word = "future" -> <<"f", "u", "t", "u", "r", "e">>
      [] word = "exit" -> <<"e", "x", "i", "t">>

TextAbstraction(text) ==
    [wc   |-> str_split_len(text),
     toks |-> {word \in SearchedStrings : str_contains(str_lower(text), Spelling(word))}]

\* the response "We charge $99 per month and our customers love the product."
PricingResponse ==
    <<"W", "e", " ", "c", "h", "a", "r", "g", "e", " ", "$", "9", "9", " ",
      "p", "e", "r", " ", "m", "o", "n", "t", "h", " ", "a", "n", "d", " ",
      "o", "u", "r", " ", "c", "u", "s", "t", "o", "m", "e", "r", "s", " ",
      "l", "o", "v", "e", " ", "t", "h", "e", " ", "p", "r", "o", "d", "u",
      "c", "t", ".">>

(***************************************************************************)
(* The utterances the model feeds in: each word count below with each set  *)
(* of found strings below, when the pair is the abstraction of a text.     *)
(***************************************************************************)
\* empty, either side of the 20-word threshold, the 150-word coverage target,
\* and past the 200-word band
WordCounts == {0, 19, 20, 150, 201}

\* two of the topic's coverage keywords (none for a topic without keywords)
SomeKeywords(topic) ==
    LET e == expected_keywords(topic)
    IN  IF e = {} THEN {}
        ELSE LET a == CHOOSE k \in e : TRUE
                 b == CHOOSE k \in e \ {a} : TRUE
             IN  {a, b}

TokenSets(topic) ==
    { {},
      {"excited"},
      {"problem"},
      {"excited", "love", "hard"},
      SomeKeywords(topic) \cup {"$"},
      expected_keywords(topic) \cup {"$", "%", "for example"},
      SubstringClosure(topic_keywords(topic)) }

\* what the analysis reads of that response
PricingUtterance == TextAbstraction(PricingResponse)

\* the responses given as text, and the topic each is given on
TextResponses(topic) == IF topic = "business_model" THEN {PricingUtterance} ELSE {}

Utterances(topic) ==
    {u \in [wc : WordCounts, toks : TokenSets(topic)] : WellFormedUtterance(u)}
        \cup TextResponses(topic)

(***************************************************************************)
(* start_live_voice_interview, and a session_data dict handed in by the    *)
(* caller of the tool functions (as the tests build theirs).               *)
(***************************************************************************)
SessionData ==
    [current_topic        |-> current_topic,
     conversation_history |-> conversation_history,
     questions_asked      |-> questions_asked,
     insights_gathered    |-> insights_gathered,
     rapport_level        |-> rapport_level]

start_live_voice_interview ==
    /\ current_topic = "introduction"
    /\ conversation_history = <<>>
    /\ questions_asked = <<>>
    /\ insights_gathered = {}
    /\ rapport_level = 50
    /\ origin = "start"
    /\ result = [status |-> "none"]

CallerSession ==
    /\ current_topic \in AllTopics
    /\ conversation_history = <<>>
    /\ questions_asked = <<>>
    /\ insights_gathered = {}
    /\ rapport_level = 50
    /\ origin = "caller"
    /\ result = [status |-> "none"]

Init ==
    (start_live_voice_interview \/ CallerSession) /\ HeapIdle /\ LiveIdle /\ AdkIdle /\ OthersIdle

(***************************************************************************)
(* process_founder_response                                                *)
(***************************************************************************)
\* faulty variant: writes over the last entry instead of appending
HistoryAppend_overwrite(history, entry) ==
    IF history = <<>> THEN <<entry>> ELSE [history EXCEPT ![Len(history)] = entry]

\* conversation_history.append(entry)
HistoryAppend(history, entry) == Append(history, entry)

\* faulty variant: the flags of the latest response replace those gathered before
InsightsUpdate_replace(gathered, insights) == insights

\* insights_gathered.update(insights)
InsightsUpdate(gathered, insights) == gathered \cup insights

\* the body of the function: one call on the session, whatever its length
process_founder_response_call(u) ==
    LET response_analysis == analyze_response_content(u, current_topic)
        h1 == HistoryAppend(conversation_history,
                            FounderEntry(u, current_topic, response_analysis))
        insights1 == InsightsUpdate(insights_gathered, response_analysis.insights)
        rapport1 == calculate_rapport_level(h1)
        sd1 == [SessionData EXCEPT !.conversation_history = h1,
                                   !.insights_gathered = insights1,
                                   !.rapport_level = rapport1]
        next_interaction == generate_next_conversational_question(sd1, response_analysis)
        h2 == HistoryAppend(h1, InterviewerEntry(next_interaction))
    IN  /\ conversation_history' = h2
        /\ insights_gathered' = insights1
        /\ rapport_level' = rapport1
        /\ current_topic' = next_interaction.topic
        /\ result' =
              IF calculate_interview_progress_raises(next_interaction.topic)
              THEN [status |-> "error"]
              ELSE [status        |-> "success",
                    next_message  |-> next_interaction.message,
                    current_topic |-> next_interaction.topic,
                    type          |-> next_interaction.type]
        /\ UNCHANGED <<questions_asked, origin, heap, session_refs, live_vars, adk_vars, platform_vars, id_vars>>

\* a call on a session of fewer than MaxExchanges exchanges
process_founder_response(u) ==
    /\ Len(FounderResponses(conversation_history)) < MaxExchanges
    /\ process_founder_response_call(u)

Next == \E u \in Utterances(current_topic) : process_founder_response(u)

Spec == Init /\ [][Next]_vars

(***************************************************************************)
(* A session followed over several topics (specification SpecTopics): the  *)
(* same function on a caller's session, with answers that complete a       *)
(* topic, over MaxTopicExchanges exchanges.                                *)
(***************************************************************************)
MaxTopicExchanges == 3

\* a short answer, and detailed answers that name all the keywords of the
\* topic or all but "revenue" and "customers"
TopicUtterances(topic) ==
    {u \in [wc   : {19, 150},
            toks : { {},
                     SubstringClosure(expected_keywords(topic))
                         \cup {"$", "%", "for example"},
                     SubstringClosure(expected_keywords(topic) \ {"revenue", "customers"})
                         \cup {"$", "%", "for example"} }] :
        WellFormedUtterance(u)}

InitTopics == CallerSession /\ HeapIdle /\ LiveIdle /\ AdkIdle /\ OthersIdle

Topics_process_founder_response(u) ==
    /\ Len(FounderResponses(conversation_history)) < MaxTopicExchanges
    /\ process_founder_response_call(u)

NextTopics ==
    \E u \in TopicUtterances(current_topic) : Topics_process_founder_response(u)

SpecTopics == InitTopics /\ [][NextTopics]_vars

(***************************************************************************)
(* Several session_data dicts (specification SpecSessions).                *)
(*                                                                         *)
(* session_data is a Python dict that holds references to a list           *)
(* (conversation_history), a list (questions_asked) and a dict             *)
(* (insights_gathered).  heap maps an address to the object stored there;  *)
(* a session dict stores the addresses of the objects it refers to.        *)
(***************************************************************************)
\* the highest address in use
Top(h) == IF DOMAIN h = {} THEN 0 ELSE CHOOSE a \in DOMAIN h : \A b \in DOMAIN h : b <= a

\* faulty variant: the conversation_history list is one object for all sessions
ObjectAddress_one_history_list(h, k) == IF k = 1 THEN 1 ELSE Top(h) + k

\* the address of the k-th object a display ([], {} or {...}) creates: a new one
ObjectAddress(h, k) == Top(h) + k

\* the objects the conversation_state dict literal creates, with the session
\* dict itself last
NewSessionObjects(h, topic) ==
    LET history  == ObjectAddress(h, 1)
        asked    == ObjectAddress(h, 2)
        insights == ObjectAddress(h, 3)
        session  == ObjectAddress(h, 4)
    IN  (history :> <<>>) @@ (asked :> <<>>) @@ (insights :> {}) @@
        (session :> [current_topic        |-> topic,
                     conversation_history |-> history,
                     questions_asked      |-> asked,
                     insights_gathered    |-> insights,
                     rapport_level        |-> 50])

\* session_data as the tool functions read it through the reference a
Deref(h, a) ==
    [current_topic        |-> h[a].current_topic,
     conversation_history |-> h[h[a].conversation_history],
     questions_asked      |-> h[h[a].questions_asked],
     insights_gathered    |-> h[h[a].insights_gathered],
     rapport_level        |-> h[a].rapport_level]

\* the addresses of the mutable objects of the session at a
ObjectsOf(h, a) ==
    {a, h[a].conversation_history, h[a].questions_asked, h[a].insights_gathered}

\* the topics a new session_data dict is on: "introduction" from
\* start_live_voice_interview, "vision_strategy" in a dict built by the caller
SessionStartTopics == {"introduction", "vision_strategy"}

\* the responses explored on these sessions
SessionUtterances(topic) ==
    {u \in Utterances(topic) :
        \/ u.wc = 0 /\ u.toks = {}
        \/ u.wc = 19 /\ u.toks = {"excited"}
        \/ u.wc = 150 /\ u.toks = expected_keywords(topic) \cup {"$", "%", "for example"}}

InitSessions == SessionIdle /\ HeapIdle /\ LiveIdle /\ AdkIdle /\ OthersIdle

\* start_live_voice_interview (or the caller's dict literal) creates a session
Sessions_start_live_voice_interview(topic) ==
    /\ Len(session_refs) < MaxSessions
    /\ heap' = heap @@ NewSessionObjects(heap, topic)
    /\ session_refs' = Append(session_refs, ObjectAddress(heap, 4))
    /\ UNCHANGED <<current_topic, conversation_history, questions_asked, insights_gathered,
                   rapport_level, origin, result, live_vars, adk_vars, platform_vars, id_vars>>

\* process_founder_response(session_data, founder_response) on the dict at a
Sessions_process_founder_response(a, u) ==
    LET session_data == Deref(heap, a)
        response_analysis == analyze_response_content(u, session_data.current_topic)
        h1 == HistoryAppend(session_data.conversation_history,
                            FounderEntry(u, session_data.current_topic, response_analysis))
        insights1 == InsightsUpdate(session_data.insights_gathered, response_analysis.insights)
        rapport1 == calculate_rapport_level(h1)
        sd1 == [session_data EXCEPT !.conversation_history = h1,
                                    !.insights_gathered = insights1,
                                    !.rapport_level = rapport1]
        next_interaction == generate_next_conversational_question(sd1, response_analysis)
        h2 == HistoryAppend(h1, InterviewerEntry(next_interaction))
    IN  /\ Len(FounderResponses(session_data.conversation_history)) < MaxExchanges
        /\ heap' = [heap EXCEPT ![heap[a].conversation_history] = h2,
                                ![heap[a].insights_gathered] = insights1,
                                ![a] = [@ EXCEPT !.rapport_level = rapport1,
                                                 !.current_topic = next_interaction.topic]]
        /\ UNCHANGED <<session_refs, current_topic, conversation_history, questions_asked,
                       insights_gathered, rapport_level, origin, result, live_vars, adk_vars, platform_vars, id_vars>>

NextSessions ==
    \/ \E topic \in SessionStartTopics : Sessions_start_live_voice_interview(topic)
    \/ \E i \in DOMAIN session_refs :
          \E u \in SessionUtterances(heap[session_refs[i]].current_topic) :
             Sessions_process_founder_response(session_refs[i], u)

SpecSessions == InitSessions /\ [][NextSessions]_vars

(***************************************************************************)
(* The question generator called on a session_data dict of the caller's    *)
(* (specification SpecQuestions): generate_follow_up_question is a tool of *)
(* the agent, generate_topic_continuation is reached through               *)
(* generate_next_conversational_question.                                  *)
(***************************************************************************)
\* an interviewer entry recorded on topic by an earlier exchange
PriorTurn(topic) ==
    [speaker       |-> "interviewer",
     content       |-> Message("prior", topic, topic, 0),
     topic         |-> topic,
     question_type |-> "continuation"]

\* a session_data dict on any topic, with up to MaxAsked interviewer entries
\* on it and a questions_asked list of up to MaxAsked entries
InitQuestions ==
    /\ current_topic \in AllTopics
    /\ \E k \in 0..MaxAsked : conversation_history = [i \in 1..k |-> PriorTurn(current_topic)]
    /\ \E q \in 0..MaxAsked : questions_asked = [i \in 1..q |-> "question"]
    /\ insights_gathered = {}
    /\ rapport_level = 50
    /\ origin = "caller"
    /\ result = [status |-> "none"]
    /\ HeapIdle
    /\ LiveIdle
    /\ AdkIdle
    /\ OthersIdle

call_generate_follow_up_question ==
    /\ result' = [status   |-> "returned",
                  question |-> generate_follow_up_question(SessionData, [needs_follow_up |-> TRUE])]
    /\ UNCHANGED <<current_topic, conversation_history, questions_asked, insights_gathered,
                   rapport_level, origin, heap, session_refs, live_vars, adk_vars, platform_vars, id_vars>>

call_generate_topic_continuation ==
    /\ result' = [status   |-> "returned",
                  question |-> generate_topic_continuation(SessionData, current_topic)]
    /\ UNCHANGED <<current_topic, conversation_history, questions_asked, insights_gathered,
                   rapport_level, origin, heap, session_refs, live_vars, adk_vars, platform_vars, id_vars>>

NextQuestions == call_generate_follow_up_question \/ call_generate_topic_continuation

SpecQuestions == InitQuestions /\ [][NextQuestions]_vars

(***************************************************************************)
(* LiveTextInterviewer (live_text_interview.py) and RealVoiceInterviewer   *)
(* (real_voice_interview.py): the object, its analysis and its questions.  *)
(* The two classes have the same methods; cls names the class.             *)
(*                                                                         *)
(* A response is abstracted to its word count wc, the set toks of lexicon  *)
(* strings that occur in it, the stop command it holds (says, "" if none)  *)
(* and whether the response is that command and nothing else (whole).      *)
(***************************************************************************)
Interviewers == {"LiveTextInterviewer", "RealVoiceInterviewer"}

\* the local max_exchanges of conduct_live_interview / conduct_voice_interview
max_exchanges == 6

live_positive_words(cls) ==
    {"excited", "fantastic", "great", "amazing", "successful", "growing",
     "confident", "passionate", "love", "excellent", "strong", "profitable"}
    \cup (IF cls = "RealVoiceInterviewer"
          THEN {"thrilled", "outstanding", "incredible", "wonderful", "brilliant"}
          ELSE {})

live_negative_words(cls) ==
    {"challenging", "difficult", "struggling", "worried", "concerned",
     "problem", "issue", "hard", "tough", "failing"}
    \cup (IF cls = "RealVoiceInterviewer"
          THEN {"disappointing", "frustrating", "stressful", "overwhelming"}
          ELSE {})

business_categories(cls) ==
    {"revenue", "customers", "team", "funding", "growth", "product", "competition"}
    \cup (IF cls = "RealVoiceInterviewer" THEN {"market"} ELSE {})

business_keywords(cls, category) ==
    LET voice == cls = "RealVoiceInterviewer"
    IN  CASE category = "revenue" ->
               {"revenue", "money", "income", "sales", "profit", "pricing", "$"}
               \cup (IF voice THEN {"dollars"} ELSE {})
          [] category = "customers" ->
               {"customers", "clients", "users", "market", "customer"}
               \cup (IF voice THEN {"user"} ELSE {})
          [] category = "team" ->
               {"team", "founder", "employees", "hiring", "ceo", "cto"}
               \cup (IF voice THEN {"staff"} ELSE {})
          [] category = "funding" ->
               {"funding", "investment", "capital", "raise", "investor"}
               \cup (IF voice THEN {"round"} ELSE {})
          [] category = "growth" ->
               {"growth", "growing", "scale", "expansion", "traction"}
               \cup (IF voice THEN {"increase"} ELSE {})
          [] category = "product" ->
               {"product", "platform", "technology", "software", "ai"}
               \cup (IF voice THEN {"solution"} ELSE {})
          [] category = "competition" ->
               {"competitors", "competition", "differentiate", "advantage"}
               \cup (IF voice THEN {"unique"} ELSE {})
          [] category = "market" ->
               IF voice THEN {"market", "industry", "sector", "opportunity", "demand"}
               ELSE {}
          [] OTHER -> {}

\* every string analyze_response searches for
LiveLexicon(cls) ==
    live_positive_words(cls) \cup live_negative_words(cls)
    \cup UNION {business_keywords(cls, c) : c \in business_categories(cls)}

\* "word in response_text.lower()" is a substring test: a response that holds
\* a string holds every searched string inside it
LiveSubstringClosure(cls, toks) ==
    (toks
     \cup (IF "customers" \in toks THEN {"customer"} ELSE {})
     \cup (IF "profitable" \in toks THEN {"profit"} ELSE {})
     \cup (IF "failing" \in toks \/ "raise" \in toks THEN {"ai"} ELSE {})
     \cup (IF "users" \in toks THEN {"user"} ELSE {})
     \cup (IF "sector" \in toks THEN {"cto"} ELSE {}))
    \cap LiveLexicon(cls)

\* faulty variant: no response is taken for a stop command
stop_commands_none(cls) == {}

\* the commands listen_for_response looks for
stop_commands(cls) ==
    IF cls = "LiveTextInterviewer"
    THEN {"stop interview", "stop", "quit", "exit"}
    ELSE {"stop interview", "end interview", "quit", "stop"}

\* len(phrase.split())
CommandWords(phrase) ==
    IF phrase \in {"stop interview", "end interview"} THEN 2
    ELSE IF phrase = "" THEN 0 ELSE 1

\* the commands that occur inside a response that holds the command says
CommandsIn(says) ==
    IF says = "" THEN {}
    ELSE IF says = "stop interview" THEN {"stop interview", "stop"}
    ELSE {says}

WellFormedLiveUtterance(cls, u) ==
    /\ u.toks \subseteq LiveLexicon(cls)
    /\ LiveSubstringClosure(cls, u.toks) = u.toks
    /\ u.wc = 0 => (u.toks = {} /\ u.says = "")
    /\ u.wc >= CommandWords(u.says)
    /\ u.whole => (u.says # "" /\ u.wc = CommandWords(u.says) /\ u.toks = {})

\* x > y for two fractions
FracGT(x, y) == x[1] * y[2] > y[1] * x[2]

\* the divisor of length_score: "optimal around 50 words" (75 for voice)
LengthOptimum(cls) == IF cls = "LiveTextInterviewer" THEN 50 ELSE 75

\* the return value of listen_for_response
StopInterview == [tag |-> "STOP_INTERVIEW"]

NoResponse == [tag |-> "None"]

TextResponse(u) == [tag |-> "text", u |-> u]

\* faulty variant: the stop command is not looked for
listen_for_response_no_stop_check(cls, input) ==
    IF cls = "LiveTextInterviewer"
    THEN CASE input.kind = "keyboard_interrupt" -> StopInterview
           [] input.kind = "input_error" -> NoResponse
           [] OTHER -> IF input.u.wc = 0 THEN NoResponse ELSE TextResponse(input.u)
    ELSE CASE input.kind \in {"timeout", "unknown_value"} -> NoResponse
           [] OTHER -> TextResponse(input.u)

listen_for_response(cls, input) ==
    IF cls = "LiveTextInterviewer"
    THEN CASE input.kind = "keyboard_interrupt" -> StopInterview
           [] input.kind = "input_error" -> NoResponse
           [] OTHER ->
                \* response.lower() in [...]: the whole response is the command
                IF input.u.whole /\ input.u.says \in stop_commands(cls)
                THEN StopInterview
                ELSE IF input.u.wc = 0 THEN NoResponse
                ELSE TextResponse(input.u)
    ELSE CASE input.kind \in {"timeout", "unknown_value"} -> NoResponse
           [] OTHER ->
                \* any(phrase in response_text.lower() ...): the command occurs in it
                IF CommandsIn(input.u.says) \cap stop_commands(cls) # {}
                THEN StopInterview
                ELSE TextResponse(input.u)

analyze_response(cls, u) ==
    IF u.wc = 0
    THEN [quality_score |-> <<0, 1>>, sentiment_score |-> <<1, 2>>, insights |-> {}]
    ELSE
    LET positive_count == Cardinality(live_positive_words(cls) \cap u.toks)
        negative_count == Cardinality(live_negative_words(cls) \cap u.toks)
        sentiment_score == IF positive_count + negative_count > 0
                           THEN Frac(positive_count, positive_count + negative_count)
                           ELSE <<1, 2>>
        insights == {c \in business_categories(cls) : business_keywords(cls, c) \cap u.toks # {}}
        D == LengthOptimum(cls)
        N == Cardinality(business_categories(cls))
        k == Cardinality(insights)
        \* length_score * 0.4 + sentiment_score * 0.3 + specificity_score * 0.3
        quality_score ==
            Frac(4 * Min(u.wc, D) * sentiment_score[2] * N
                   + 3 * sentiment_score[1] * D * N
                   + 3 * k * D * sentiment_score[2],
                 10 * D * sentiment_score[2] * N)
    IN  [quality_score   |-> quality_score,
         sentiment_score |-> sentiment_score,
         insights        |-> insights,
         word_count      |-> u.wc]

\* what the interviewer says: kind "opening", "question" (the question that
\* follows the answer on topic, with its enthusiasm prefix), "farewell",
\* "thanks" (after a stop command), "retry_notice", "closing"
Spoken(kind, topic, prefix) == [kind |-> kind, topic |-> topic, prefix |-> prefix]

\* topic_questions[topic]["next_topic"] ("" when topic is no key of it)
live_next_topic(topic) ==
    CASE topic = "introduction"       -> "business_model"
      [] topic = "business_model"     -> "market_opportunity"
      [] topic = "market_opportunity" -> "traction_metrics"
      [] topic = "traction_metrics"   -> "team_execution"
      [] topic = "team_execution"     -> "funding_vision"
      [] topic = "funding_vision"     -> "conclusion"
      [] OTHER                        -> ""

LiveTopics ==
    {"introduction", "business_model", "market_opportunity", "traction_metrics",
     "team_execution", "funding_vision", "conclusion"}

\* the rapport update at the head of generate_next_question (hundredths)
live_rapport_update(cls, rapport, quality_score) ==
    IF cls = "LiveTextInterviewer"
    THEN IF FracGT(quality_score, <<7, 10>>) THEN Min(rapport + 15, 100)
         ELSE IF FracGT(quality_score, <<5, 10>>) THEN Min(rapport + 5, 100)
         ELSE rapport
    ELSE IF FracGT(quality_score, <<8, 10>>) THEN Min(rapport + 20, 100)
         ELSE IF FracGT(quality_score, <<6, 10>>) THEN Min(rapport + 10, 100)
         ELSE rapport

\* enthusiasm_prefix / enthusiasm: the words put before the question
enthusiasm(cls, session_data, response_analysis) ==
    IF cls = "LiveTextInterviewer"
    THEN IF FracGT(response_analysis.sentiment_score, <<7, 10>>) THEN "That's fantastic! "
         ELSE IF FracGT(response_analysis.sentiment_score, <<5, 10>>) THEN "That sounds great! "
         ELSE ""
    ELSE IF /\ FracGT(response_analysis.sentiment_score, <<7, 10>>)
            /\ FracGT(response_analysis.quality_score, <<6, 10>>)
         THEN <<"That's fantastic!", "That sounds incredible!", "I love hearing that!",
                "That's really impressive!", "Wow, that's exciting!", "That's excellent!"
              >>[(Len(session_data.conversation_history) % 6) + 1]
         ELSE <<"That's interesting.", "I see.", "That makes sense.", "Good to know.",
                "Understood.">>[(Len(session_data.conversation_history) % 5) + 1]

\* returns the session as the method leaves it, and the question it returns
generate_next_question(cls, session_data, response_analysis) ==
    LET current_topic_ == session_data.current_topic
        sd1 == [session_data EXCEPT !.rapport_level =
                    live_rapport_update(cls, @, response_analysis.quality_score)]
    IN  IF live_next_topic(current_topic_) # ""
        THEN [session_data |-> [sd1 EXCEPT !.current_topic = live_next_topic(current_topic_)],
              question     |-> Spoken("question", current_topic_,
                                      enthusiasm(cls, session_data, response_analysis))]
        ELSE [session_data |-> sd1,
              question     |-> Spoken("farewell", current_topic_, "")]

LiveFounderEntry(response, analysis) ==
    [speaker |-> "founder", content |-> response, analysis |-> analysis]

LiveInterviewerEntry(next_question, topic) ==
    [speaker |-> "interviewer", content |-> next_question, topic |-> topic]

\* the session values print_interview_summary prints
print_interview_summary(session_data) ==
    [total_exchanges     |-> Len(session_data.conversation_history) \div 2,
     final_rapport_level |-> session_data.rapport_level,
     final_topic         |-> session_data.current_topic,
     areas_discussed     |-> session_data.insights_gathered]

(***************************************************************************)
(* Inputs of the console drivers: what the founder types or says, or what  *)
(* goes wrong while the driver waits for it.                               *)
(***************************************************************************)
LiveUtterance(wc, toks, says, whole) ==
    [wc |-> wc, toks |-> toks, says |-> says, whole |-> whole]

\* a short answer, a long rich one, an answer that holds the word "stop", the
\* stop command alone, and (typed) nothing at all
LiveUtterances(cls) ==
    {u \in {LiveUtterance(3, {}, "", FALSE),
            LiveUtterance(80, {"excited", "confident", "revenue", "customers", "customer",
                               "team", "funding", "growth", "product"}, "", FALSE),
            LiveUtterance(30, {"problem", "market"}, "stop", FALSE),
            LiveUtterance(2, {}, "stop interview", TRUE)}
            \cup (IF cls = "LiveTextInterviewer"
                  THEN {LiveUtterance(0, {}, "", FALSE)} ELSE {})
       : WellFormedLiveUtterance(cls, u)}

\* "unknown_value" also stands for the other recognition failures
\* (sr.RequestError, any other exception): all of them return None
LiveInputs(cls) ==
    {[kind |-> "text", u |-> u] : u \in LiveUtterances(cls)}
    \cup (IF cls = "LiveTextInterviewer"
          THEN {[kind |-> "keyboard_interrupt"], [kind |-> "input_error"]}
          ELSE {[kind |-> "timeout"], [kind |-> "unknown_value"]})

(***************************************************************************)
(* The interviewer object and its conduct method.  A step runs the method  *)
(* from one wait for input to the next, or to its return.                  *)
(***************************************************************************)
\* __init__: self.session_data
LiveSessionData ==
    [current_topic        |-> "introduction",
     conversation_history |-> <<>>,
     insights_gathered    |-> {},
     rapport_level        |-> 50,
     interview_active     |-> TRUE]

InitLive ==
    /\ interviewer \in Interviewers
    /\ live_session_data = LiveSessionData
    /\ exchange_count = 0
    /\ live_pc = "constructed"
    /\ heard = None
    /\ transcript = <<>>
    /\ summary = None
    /\ VoiceIdle
    /\ AdkIdle
    /\ OthersIdle

\* the opening message is spoken and the loop is entered: the loop test,
\* exchange_count += 1, then the wait in listen_for_response
EnterLoop ==
    /\ transcript' = Append(transcript, Spoken("opening", "introduction", ""))
    /\ IF live_session_data.interview_active /\ 0 < max_exchanges
       THEN exchange_count' = 1 /\ live_pc' = "listen" /\ summary' = summary
       ELSE /\ exchange_count' = 0
            /\ live_pc' = "done"
            /\ summary' = print_interview_summary(live_session_data)

\* the call of conduct_live_interview / conduct_voice_interview, up to its first wait
conduct_begin ==
    /\ live_pc = "constructed"
    /\ IF interviewer = "RealVoiceInterviewer"
       THEN /\ live_pc' = "mic_test"
            /\ UNCHANGED <<exchange_count, transcript, summary>>
       ELSE EnterLoop
    /\ UNCHANGED <<interviewer, live_session_data, heard, voice_vars, adk_vars, platform_vars, id_vars>>

\* conduct_voice_interview: the microphone test
microphone_test(input) ==
    /\ live_pc = "mic_test"
    /\ heard' = input
    /\ IF listen_for_response(interviewer, input) = NoResponse
       THEN /\ live_pc' = "aborted"
            /\ UNCHANGED <<exchange_count, transcript, summary>>
       ELSE EnterLoop
    /\ UNCHANGED <<interviewer, live_session_data, voice_vars, adk_vars, platform_vars, id_vars>>

\* the end of a loop iteration: the loop test, then either exchange_count += 1
\* and the next wait, or the summary after the loop
LoopTest(session_data) ==
    IF session_data.interview_active /\ exchange_count < max_exchanges
    THEN /\ exchange_count' = exchange_count + 1
         /\ live_pc' = "listen"
         /\ summary' = summary
    ELSE /\ exchange_count' = exchange_count
         /\ live_pc' = "done"
         /\ summary' = print_interview_summary(session_data)

\* one iteration of the main interview loop, from the return of listen_for_response
exchange(input) ==
    /\ live_pc = "listen"
    /\ heard' = input
    /\ LET response == listen_for_response(interviewer, input)
       IN  CASE response = StopInterview ->
                  \* the thanks are spoken; break; print_interview_summary
                  /\ transcript' = Append(transcript,
                                          Spoken("thanks", live_session_data.current_topic, ""))
                  /\ live_session_data' = live_session_data
                  /\ exchange_count' = exchange_count
                  /\ live_pc' = "done"
                  /\ summary' = print_interview_summary(live_session_data)
             [] response = NoResponse ->
                  \* "Let me rephrase the question"; continue
                  /\ transcript' = Append(transcript,
                                          Spoken("retry_notice", live_session_data.current_topic, ""))
                  /\ live_session_data' = live_session_data
                  /\ LoopTest(live_session_data)
             [] OTHER ->
                  LET analysis == analyze_response(interviewer, response.u)
                      sd1 == [live_session_data EXCEPT
                                !.conversation_history =
                                    Append(@, LiveFounderEntry(response.u, analysis)),
                                !.insights_gathered = @ \cup analysis.insights]
                      gen == generate_next_question(interviewer, sd1, analysis)
                      sd2 == [gen.session_data EXCEPT
                                !.conversation_history =
                                    Append(@, LiveInterviewerEntry(gen.question,
                                                  gen.session_data.current_topic))]
                  IN  /\ live_session_data' = sd2
                      /\ transcript' = Append(transcript, gen.question)
                      /\ IF sd2.current_topic = "conclusion"
                         THEN /\ live_pc' = "final_listen"
                              /\ UNCHANGED <<exchange_count, summary>>
                         ELSE LoopTest(sd2)
    /\ UNCHANGED <<interviewer, voice_vars, adk_vars, platform_vars, id_vars>>

\* the final response after the last question, the closing message, break,
\* print_interview_summary
final_response(input) ==
    /\ live_pc = "final_listen"
    /\ heard' = input
    /\ transcript' =
          IF listen_for_response(interviewer, input).tag = "text"
          THEN Append(transcript, Spoken("closing", live_session_data.current_topic, ""))
          ELSE transcript
    /\ live_pc' = "done"
    /\ summary' = print_interview_summary(live_session_data)
    /\ UNCHANGED <<interviewer, live_session_data, exchange_count, voice_vars, adk_vars, platform_vars, id_vars>>

NextLive ==
    \/ conduct_begin
    \/ \E input \in LiveInputs(interviewer) : microphone_test(input)
    \/ \E input \in LiveInputs(interviewer) : exchange(input)
    \/ \E input \in LiveInputs(interviewer) : final_response(input)

SpecLive == InitLive /\ [][NextLive]_vars

(***************************************************************************)
(* InterviewAgent (adk_interview_agent.py): the analysis of a response.    *)
(*                                                                         *)
(* A response is abstracted to the number of its characters after strip()  *)
(* (chars), whether it holds a digit (digit) and the set toks of searched  *)
(* strings that occur in it, and the first money amount in it (amount, ""  *)
(* if none).  A confidence score is kept in units of 1/2000; a sentiment   *)
(* is a fraction <<num, den>> in [-1, 1].                                  *)
(***************************************************************************)
Abs(n) == IF n < 0 THEN -n ELSE n

\* n/d in lowest terms, n of either sign (d > 0)
SFrac(n, d) == LET g == GCD(Abs(n), d) IN <<n \div g, d \div g>>

SFracAdd(x, y) == SFrac(x[1] * y[2] + y[1] * x[2], x[2] * y[2])

\* the categories of INVESTMENT_QUESTIONS, in order
INVESTMENT_QUESTIONS ==
    <<"problem", "customers", "traction", "business_model", "competition", "fundraising">>

\* every string the analysis searches for
AdkLexicon ==
    {"market", "billion", "million", "urgent", "critical", "enterprise", "b2b", "b2c",
     "revenue", "users", "growth", "customers", "%", "x", "subscription", "saas",
     "recurring", "pricing", "$", "different", "unique", "advantage", "moat",
     "milestone", "goal", "don't know", "not sure", "confidential", "can't share",
     "no", "no competition", "data", "metrics", "numbers", "statistics", "proven",
     "validated", "tested", "evidence", "increase", "improve", "excited", "confident",
     "strong", "growing", "successful", "optimistic", "positive", "challenging",
     "difficult", "struggling", "concerned", "worried", "negative", "sure", "certain",
     "data shows", "maybe", "perhaps", "might", "could be", "large"}

\* "word in response_lower" is a substring test
AdkSubstringClosure(toks) ==
    toks
    \cup (IF "not sure" \in toks THEN {"sure", "no"} ELSE {})
    \cup (IF "don't know" \in toks THEN {"no"} ELSE {})
    \cup (IF "no competition" \in toks THEN {"no"} ELSE {})
    \cup (IF "data shows" \in toks THEN {"data"} ELSE {})
    \cup (IF "confidential" \in toks THEN {"confident"} ELSE {})
    \cup (IF "excited" \in toks THEN {"x"} ELSE {})

WellFormedAdkResponse(r) ==
    /\ r.toks \subseteq AdkLexicon
    /\ AdkSubstringClosure(r.toks) = r.toks
    /\ r.chars = 0 => (r.toks = {} /\ ~r.digit)
    /\ r.amount # "" => "$" \in r.toks

HoldsAny(r, words) == r.toks \cap words # {}

\* the list of the labels whose condition holds, in the order of table
RECURSIVE Labels(_)
Labels(table) ==
    IF table = <<>> THEN <<>>
    ELSE (IF table[1][1] THEN <<table[1][2]>> ELSE <<>>) \o Labels(Tail(table))

extract_insights(r, category) ==
    CASE category = "problem" ->
           Labels(<< <<HoldsAny(r, {"market"}) /\ HoldsAny(r, {"billion", "million"}),
                       "Market size mentioned">>,
                     <<HoldsAny(r, {"urgent", "critical"}), "Problem urgency highlighted">> >>)
      [] category = "customers" ->
           Labels(<< <<HoldsAny(r, {"enterprise"}), "Enterprise customer focus">>,
                     <<HoldsAny(r, {"b2b", "b2c"}), "Clear customer segment identified">> >>)
      [] category = "traction" ->
           Labels(<< <<HoldsAny(r, {"revenue", "users", "growth", "customers"}),
                       "Quantifiable metrics provided">>,
                     <<HoldsAny(r, {"%", "x"}), "Growth metrics mentioned">> >>)
      [] category = "business_model" ->
           Labels(<< <<HoldsAny(r, {"subscription", "saas", "recurring"}), "Recurring revenue model">>,
                     <<HoldsAny(r, {"pricing", "$"}), "Pricing strategy discussed">> >>)
      [] category = "competition" ->
           Labels(<< <<HoldsAny(r, {"different", "unique"}), "Differentiation strategy mentioned">>,
                     <<HoldsAny(r, {"advantage", "moat"}), "Competitive advantage identified">> >>)
      [] category = "fundraising" ->
           Labels(<< <<HoldsAny(r, {"$", "million", "billion"}), "Specific funding amount mentioned">>,
                     <<HoldsAny(r, {"milestone", "goal"}), "Clear funding goals outlined">> >>)
      [] OTHER -> <<>>

identify_red_flags(r, category) ==
    Labels(<< <<r.chars < 20, "Very brief response - may lack depth">>,
              <<HoldsAny(r, {"don't know", "not sure"}), "Uncertainty about key aspects">>,
              <<HoldsAny(r, {"confidential", "can't share"}), "Lack of transparency">>,
              <<category = "traction" /\ HoldsAny(r, {"no"})
                  /\ HoldsAny(r, {"revenue", "users", "customers"}),
                "No traction metrics provided">>,
              <<category = "competition" /\ HoldsAny(r, {"no competition"}),
                "Claims no competition - may indicate market misunderstanding">> >>)

identify_positive_signals(r, category) ==
    Labels(<< <<r.chars > 100, "Detailed, comprehensive response">>,
              <<HoldsAny(r, {"data", "metrics", "numbers", "statistics"}), "Data-driven approach">>,
              <<HoldsAny(r, {"proven", "validated", "tested", "evidence"}), "Evidence-based claims">>,
              <<category = "problem" /\ HoldsAny(r, {"validated"}), "Problem validation demonstrated">>,
              <<category = "traction" /\ HoldsAny(r, {"growth", "increase", "improve"}),
                "Growth trajectory shown">> >>)

calculate_sentiment(r) ==
    LET positive_count == Cardinality(r.toks \cap {"excited", "confident", "strong", "growing",
                                                   "successful", "optimistic", "positive"})
        negative_count == Cardinality(r.toks \cap {"challenging", "difficult", "struggling",
                                                   "concerned", "worried", "negative"})
    IN  IF positive_count + negative_count = 0 THEN <<0, 1>>
        ELSE SFrac(positive_count - negative_count, positive_count + negative_count)

\* in units of 1/2000
calculate_confidence(r) ==
    LET confidence_count == Cardinality(r.toks \cap {"confident", "sure", "certain", "proven",
                                                     "validated", "data shows"})
        uncertainty_count == Cardinality(r.toks \cap {"maybe", "perhaps", "might", "could be",
                                                      "not sure", "don't know"})
        length_score == Min(5 * r.chars, 1000)
        specificity_score == IF r.digit THEN 1000 ELSE 500
        base_confidence == length_score + specificity_score
    IN  IF confidence_count > uncertainty_count THEN Min(base_confidence + 400, 2000)
        ELSE IF uncertainty_count > confidence_count THEN Max(base_confidence - 400, 0)
        ELSE base_confidence

suggest_follow_ups(r, category) ==
    Labels(<< <<category = "problem" /\ HoldsAny(r, {"market"}),
                "How did you validate the market size?">>,
              <<category = "traction" /\ HoldsAny(r, {"growth"}), "What's driving this growth?">>,
              <<category = "competition" /\ HoldsAny(r, {"different"}),
                "How do you maintain this differentiation?">> >>)

analyze_response_adk(r, category) ==
    [key_insights          |-> extract_insights(r, category),
     red_flags             |-> identify_red_flags(r, category),
     positive_signals      |-> identify_positive_signals(r, category),
     sentiment_score       |-> calculate_sentiment(r),
     confidence_score      |-> calculate_confidence(r),
     follow_up_suggestions |-> suggest_follow_ups(r, category)]

determine_next_action(current_index, analysis, r) ==
    IF r.chars < 50 THEN "follow_up"
    ELSE IF analysis.red_flags # <<>> THEN "follow_up"
    ELSE IF analysis.confidence_score > 1400 THEN "next_question"
    ELSE "follow_up"

\* which message _generate_next_message returns (every question has follow-ups)
generate_next_message(current_index, next_action, total_questions) ==
    IF next_action = "follow_up"
    THEN [kind |-> "follow_up", of |-> INVESTMENT_QUESTIONS[current_index + 1]]
    ELSE IF next_action = "next_question" /\ current_index + 1 < total_questions
    THEN [kind |-> "next_question", of |-> INVESTMENT_QUESTIONS[current_index + 2]]
    ELSE IF current_index + 1 >= total_questions
    THEN [kind |-> "prepare_summary", of |-> ""]
    ELSE [kind |-> "elaborate", of |-> ""]

(***************************************************************************)
(* InterviewAgent: the memory, the database and the summary report.        *)
(***************************************************************************)
\* The class behind self.memory.  "mock" is the fallback class of the
\* module: store does nothing and retrieve returns None.  With the ADK
\* installed the class comes from google.adk; the two other kinds are the
\* ways such a store can keep a record per session: store replaces the
\* record ("replace") or overlays its fields on the record session_refs ("merge").
MemoryKinds == {"mock", "replace", "merge"}

\* dict.get(key, default)
DictGet(d, key, default) == IF key \in DOMAIN d THEN d[key] ELSE default

\* the dict held with the fields of data written over it
DictUpdate(held, data) ==
    [f \in DOMAIN held \cup DOMAIN data |-> IF f \in DOMAIN data THEN data[f] ELSE held[f]]

\* self.memory.store(data): the record held afterwards
Memory_store(kind, held, data) ==
    CASE kind = "mock"    -> held
      [] kind = "replace" -> data
      [] OTHER            -> IF held = None THEN data ELSE DictUpdate(held, data)

\* self.memory.retrieve({"session_id": session_id})
Memory_retrieve(kind, held) == IF kind = "mock" THEN None ELSE held

RECURSIVE CountInsights(_, _)
\* insights[insight] = insights.get(insight, 0) + 1, for each insight of the list
CountInsights(insights, key_insights) ==
    IF key_insights = <<>> THEN insights
    ELSE LET k == key_insights[1]
             n == IF k \in DOMAIN insights THEN insights[k] ELSE 0
         IN  CountInsights([i \in DOMAIN insights \cup {k} |->
                                IF i = k THEN n + 1 ELSE insights[i]],
                           Tail(key_insights))

\* the record _update_memory_with_insights stores
update_memory_with_insights(memory_data, analysis) ==
    [session_id        |-> "session",
     insights_gathered |-> CountInsights(DictGet(memory_data, "insights_gathered", <<>>),
                                         analysis.key_insights),
     red_flags         |-> DictGet(memory_data, "red_flags", <<>>) \o analysis.red_flags,
     positive_signals  |-> DictGet(memory_data, "positive_signals", <<>>)
                             \o analysis.positive_signals]

\* the row _store_response adds to InterviewResponse
ResponseRow(category, r, analysis) ==
    [question_category |-> category,
     response          |-> r,
     sentiment_score   |-> analysis.sentiment_score,
     confidence_score  |-> analysis.confidence_score,
     key_insights      |-> analysis.key_insights,
     red_flags         |-> analysis.red_flags,
     positive_signals  |-> analysis.positive_signals]

RECURSIVE SumSentimentScores(_)
SumSentimentScores(responses) ==
    IF responses = <<>> THEN <<0, 1>>
    ELSE SFracAdd(responses[1].sentiment_score, SumSentimentScores(Tail(responses)))

RECURSIVE SumConfidenceScores(_)
SumConfidenceScores(responses) ==
    IF responses = <<>> THEN 0
    ELSE responses[1].confidence_score + SumConfidenceScores(Tail(responses))

RECURSIVE AllRedFlags(_)
AllRedFlags(responses) ==
    IF responses = <<>> THEN <<>> ELSE responses[1].red_flags \o AllRedFlags(Tail(responses))

RECURSIVE AllPositiveSignals(_)
AllPositiveSignals(responses) ==
    IF responses = <<>> THEN <<>>
    ELSE responses[1].positive_signals \o AllPositiveSignals(Tail(responses))

\* set(list)
SetOf(list) == {list[i] : i \in 1..Len(list)}

IsCompetition(row) == row.question_category = "competition"

IsFundraising(row) == row.question_category = "fundraising"

identify_opportunities(responses) ==
    {o \in {"Strong growth trajectory", "Large addressable market",
            "Unique competitive positioning"} :
       \E i \in 1..Len(responses) :
          LET row == responses[i]
          IN  \/ /\ o = "Strong growth trajectory"
                 /\ row.question_category = "traction"
                 /\ row.positive_signals # <<>>
              \/ /\ o = "Large addressable market"
                 /\ row.question_category = "market"
                 /\ "large" \in row.response.toks
              \/ /\ o = "Unique competitive positioning"
                 /\ row.question_category = "competition"
                 /\ "unique" \in row.response.toks}

analyze_competition(responses) ==
    LET competition_responses == SelectSeq(responses, IsCompetition)
    IN  IF competition_responses = <<>>
        THEN [analysis |-> "No competition data provided"]
        ELSE [analysis |-> competition_responses[1].response,
              differentiation_mentioned |-> "different" \in competition_responses[1].response.toks,
              competitive_advantage_clear |-> competition_responses[1].confidence_score > 1400]

extract_fundraising_info(responses) ==
    LET fundraising_responses == SelectSeq(responses, IsFundraising)
    IN  IF fundraising_responses = <<>>
        THEN [funding_goal |-> "Not specified", use_of_funds |-> "Not specified"]
        ELSE [funding_goal |-> IF fundraising_responses[1].response.amount # ""
                               THEN fundraising_responses[1].response.amount
                               ELSE "Not specified",
              use_of_funds |-> fundraising_responses[1].response,
              funding_timeline |-> "Not specified",
              funding_readiness |-> IF fundraising_responses[1].confidence_score > 1400
                                    THEN "High" ELSE "Medium"]

\* sentiment a fraction, confidence a fraction (of 1), red_flags a list
generate_recommendation(sentiment, confidence, red_flags) ==
    IF Len(red_flags) > 3 THEN "Proceed with caution - multiple red flags identified"
    ELSE IF FracGT(sentiment, <<5, 10>>) /\ FracGT(confidence, <<7, 10>>)
    THEN "Strong candidate - proceed to next stage"
    ELSE IF FracGT(sentiment, <<2, 10>>) /\ FracGT(confidence, <<5, 10>>)
    THEN "Promising candidate - requires further evaluation"
    ELSE "Not recommended - low confidence or negative sentiment"

suggest_next_steps(red_flags, positive_signals) ==
    Labels(<< <<red_flags # <<>>, "Address identified red flags in follow-up discussion">>,
              <<Len(positive_signals) > 3, "Schedule detailed due diligence meeting">>,
              <<TRUE, "Review financial projections and business plan">>,
              <<TRUE, "Conduct reference checks with customers and partners">> >>)

DetailedResponse(row) ==
    [question   |-> row.question_category,
     response   |-> row.response,
     category   |-> row.question_category,
     insights   |-> row.key_insights,
     sentiment  |-> row.sentiment_score,
     confidence |-> row.confidence_score]

\* faulty variant: the duration is taken from the clock instead of the fixed estimate
generate_summary_report_clock_duration(responses, now) ==
    LET total_responses == Len(responses)
        avg_sentiment == IF responses # <<>>
                         THEN LET s == SumSentimentScores(responses)
                              IN  SFrac(s[1], s[2] * total_responses)
                         ELSE <<0, 1>>
        avg_confidence == IF responses # <<>>
                          THEN SFrac(SumConfidenceScores(responses), 2000 * total_responses)
                          ELSE <<0, 1>>
    IN  [interview_summary |->
            [founder_name |-> "founder", startup_name |-> "startup",
             session_id |-> "session", interview_date |-> now,
             total_questions |-> total_responses, duration_minutes |-> now],
         key_insights |->
            [strengths |-> SetOf(AllPositiveSignals(responses)),
             risks |-> SetOf(AllRedFlags(responses)),
             opportunities |-> identify_opportunities(responses),
             competitive_landscape |-> analyze_competition(responses)],
         fundraising_details |-> extract_fundraising_info(responses),
         overall_assessment |->
            [sentiment_score |-> avg_sentiment,
             confidence_score |-> avg_confidence,
             recommendation |-> generate_recommendation(avg_sentiment, avg_confidence,
                                                        AllRedFlags(responses)),
             next_steps |-> suggest_next_steps(AllRedFlags(responses),
                                               AllPositiveSignals(responses))],
         detailed_responses |-> [i \in 1..Len(responses) |-> DetailedResponse(responses[i])]]

\* _generate_summary_report: responses are the rows of the session, now is
\* what datetime.now() returns
generate_summary_report(responses, now) ==
    LET total_responses == Len(responses)
        avg_sentiment == IF responses # <<>>
                         THEN LET s == SumSentimentScores(responses)
                              IN  SFrac(s[1], s[2] * total_responses)
                         ELSE <<0, 1>>
        avg_confidence == IF responses # <<>>
                          THEN SFrac(SumConfidenceScores(responses), 2000 * total_responses)
                          ELSE <<0, 1>>
    IN  [interview_summary |->
            [founder_name |-> "founder", startup_name |-> "startup",
             session_id |-> "session", interview_date |-> now,
             total_questions |-> total_responses, duration_minutes |-> 30],
         key_insights |->
            [strengths |-> SetOf(AllPositiveSignals(responses)),
             risks |-> SetOf(AllRedFlags(responses)),
             opportunities |-> identify_opportunities(responses),
             competitive_landscape |-> analyze_competition(responses)],
         fundraising_details |-> extract_fundraising_info(responses),
         overall_assessment |->
            [sentiment_score |-> avg_sentiment,
             confidence_score |-> avg_confidence,
             recommendation |-> generate_recommendation(avg_sentiment, avg_confidence,
                                                        AllRedFlags(responses)),
             next_steps |-> suggest_next_steps(AllRedFlags(responses),
                                               AllPositiveSignals(responses))],
         detailed_responses |-> [i \in 1..Len(responses) |-> DetailedResponse(responses[i])]]

(***************************************************************************)
(* InterviewAgent: one agent and one interview session.                    *)
(***************************************************************************)
AdkResponse(chars, digit, toks, amount) ==
    [chars |-> chars, digit |-> digit, toks |-> toks, amount |-> amount]

\* a very brief response and a detailed one
AdkResponses ==
    {r \in {AdkResponse(10, FALSE, {}, ""),
            AdkResponse(200, TRUE, {"market", "million", "validated", "confident",
                                    "growing", "data", "$"}, "$2M")}
       : WellFormedAdkResponse(r)}

\* __init__: the agent holds an empty memory; no session has been started
InitAdk ==
    /\ memory_kind \in MemoryKinds
    /\ memory = None
    /\ db_responses = <<>>
    /\ db_session = None
    /\ clock = 0
    /\ calls = 0
    /\ completion_runs = 0
    /\ reports = <<>>
    /\ adk_result = None
    /\ VoiceIdle
    /\ LiveIdle
    /\ OthersIdle

start_interview_session ==
    /\ db_session = None
    /\ db_session' = [session_status     |-> "active",
                      total_questions    |-> Len(INVESTMENT_QUESTIONS),
                      questions_answered |-> 0,
                      session_start_time |-> clock]
    /\ memory' = Memory_store(memory_kind, memory,
                    [session_id           |-> "session",
                     founder_name         |-> "founder",
                     startup_name         |-> "startup",
                     session_start_time   |-> clock,
                     questions_answered   |-> 0,
                     insights_gathered    |-> <<>>,
                     red_flags            |-> <<>>,
                     positive_signals     |-> <<>>,
                     conversation_history |-> <<>>])
    /\ adk_result' = [status |-> "success", total_questions |-> Len(INVESTMENT_QUESTIONS)]
    /\ UNCHANGED <<memory_kind, db_responses, clock, calls, completion_runs, reports,
                   voice_vars, live_vars, platform_vars, id_vars>>

\* _complete_interview: the report is generated, saved, and the session row
\* is marked completed
complete_interview ==
    \E now \in {clock, clock + 1} :
       LET summary_report == generate_summary_report(db_responses, now)
       IN  /\ clock' = now
           /\ reports' = Append(reports, [report |-> summary_report,
                                          rows   |-> Len(db_responses)])
           /\ db_session' =
                 DictUpdate(db_session,
                    [session_status     |-> "completed",
                     session_end_time   |-> now,
                     duration_minutes   |-> 30,
                     overall_sentiment  |-> summary_report.overall_assessment.sentiment_score,
                     overall_confidence |-> summary_report.overall_assessment.confidence_score,
                     key_insights       |-> summary_report.key_insights.strengths,
                     red_flags          |-> summary_report.key_insights.risks,
                     positive_signals   |-> summary_report.key_insights.strengths])
           /\ completion_runs' = completion_runs + 1
           /\ adk_result' = [status |-> "success", interview_completed |-> TRUE,
                             summary_report |-> summary_report]
           /\ UNCHANGED <<memory, db_responses>>

\* InterviewAgent.process_founder_response(session_data, response)
InterviewAgent_process_founder_response(r) ==
    /\ db_session # None
    /\ calls < MaxCalls
    /\ calls' = calls + 1
    /\ LET memory_data == Memory_retrieve(memory_kind, memory)
       IN  IF memory_data = None
           THEN /\ adk_result' = [status |-> "error", error_message |-> "Session not found"]
                /\ UNCHANGED <<memory, db_responses, db_session, clock, completion_runs,
                               reports>>
           ELSE LET current_index == DictGet(memory_data, "questions_answered", 0)
                IN  IF current_index >= Len(INVESTMENT_QUESTIONS)
                    THEN complete_interview
                    ELSE LET category == INVESTMENT_QUESTIONS[current_index + 1]
                             analysis == analyze_response_adk(r, category)
                             next_action == determine_next_action(current_index, analysis, r)
                         IN  /\ db_responses' =
                                   Append(db_responses, ResponseRow(category, r, analysis))
                             /\ memory' =
                                   Memory_store(memory_kind, memory,
                                      update_memory_with_insights(memory_data, analysis))
                             \* _update_session_progress
                             /\ db_session' = [db_session EXCEPT
                                                 !.questions_answered = current_index + 1]
                             /\ adk_result' =
                                   [status |-> "success",
                                    next_message |->
                                       generate_next_message(current_index, next_action,
                                                             Len(INVESTMENT_QUESTIONS)),
                                    current_category |-> category,
                                    questions_answered |-> current_index + 1,
                                    next_action |-> next_action]
                             /\ UNCHANGED <<clock, completion_runs, reports>>
    /\ UNCHANGED <<memory_kind, voice_vars, live_vars, platform_vars, id_vars>>

\* a call of the report synthesizer _generate_summary_report on the session
InvokeReportSynthesizer ==
    /\ db_session # None
    /\ Len(reports) < MaxReports
    /\ \E now \in {clock, clock + 1} :
          /\ clock' = now
          /\ reports' = Append(reports, [report |-> generate_summary_report(db_responses, now),
                                         rows   |-> Len(db_responses)])
    /\ UNCHANGED <<memory, memory_kind, db_responses, db_session, calls, completion_runs,
                   adk_result, voice_vars, live_vars, platform_vars, id_vars>>

NextAdk ==
    \/ start_interview_session
    \/ \E r \in AdkResponses : InterviewAgent_process_founder_response(r)
    \/ InvokeReportSynthesizer

SpecAdk == InitAdk /\ [][NextAdk]_vars

(***************************************************************************)
(* StartupInterviewAgent.conduct_interview (startup-evaluation-platform/   *)
(* agents/interview_agent.py), specification SpecConduct.  A step runs the *)
(* coroutine through one group of awaited calls; each awaited call (the    *)
(* Gemini model, Firestore, text-to-speech) either returns or raises, and  *)
(* the except clause of conduct_interview runs in the step of the raise.   *)
(***************************************************************************)
InterviewStatus == {"scheduled", "in_progress", "completed", "cancelled"}

InterviewSection ==
    <<"introduction", "founder_background", "problem_deep_dive", "solution_validation",
      "team_dynamics", "business_model", "wrap_up">>

\* the number of questions _initialize_interview_structure gives a section
SectionQuestions(section) == IF section \in {"introduction", "wrap_up"} THEN 2 ELSE 3

\* bound on the follow-up questions asked in one section
MaxFollowUps == 1

\* the fields of the document _save_session writes that the model follows
SessionDocument(session) == [status |-> session.status, responses |-> session.responses]

\* _save_session: document(session_id).set(session_data, merge=True), or a raise
save_session(written, session, ok) ==
    IF ok THEN Append(written, SessionDocument(session)) ELSE written

\* except Exception: session.status = CANCELLED; await _save_session(session); raise
except_handler(session, written, save_ok) ==
    LET cancelled == [session EXCEPT !.status = "cancelled"]
    IN  /\ interview_session' = cancelled
        /\ saved' = save_session(written, cancelled, save_ok)
        /\ conduct_pc' = "raised"

\* the call: the InterviewSession object and the initial save
conduct_interview(save_ok, handler_save_ok) ==
    /\ conduct_pc = "not_called"
    /\ LET session == [status |-> "in_progress", responses |-> 0, end_time |-> None]
       IN  IF save_ok
           THEN /\ interview_session' = session
                /\ saved' = save_session(saved, session, TRUE)
                /\ conduct_pc' = "section"
                /\ section_index' = 1
           ELSE /\ except_handler(session, saved, handler_save_ok)
                /\ section_index' = section_index
    /\ UNCHANGED <<voice_vars, live_vars, adk_vars, id_vars>>

\* one iteration of `for section in InterviewSection`: _conduct_section, extend, save
conduct_section(section_ok, follow_ups, save_ok, handler_save_ok) ==
    /\ conduct_pc = "section"
    /\ IF ~section_ok
       THEN /\ except_handler(interview_session, saved, handler_save_ok)
            /\ section_index' = section_index
       ELSE LET section == InterviewSection[section_index]
                session == [interview_session EXCEPT
                               !.responses = @ + SectionQuestions(section) + follow_ups]
            IN  IF save_ok
                THEN /\ interview_session' = session
                     /\ saved' = save_session(saved, session, TRUE)
                     /\ IF section_index < Len(InterviewSection)
                        THEN conduct_pc' = "section" /\ section_index' = section_index + 1
                        ELSE conduct_pc' = "finalize" /\ section_index' = section_index
                ELSE /\ except_handler(session, saved, handler_save_ok)
                     /\ section_index' = section_index
    /\ UNCHANGED <<voice_vars, live_vars, adk_vars, id_vars>>

\* "Finalize interview": status COMPLETED, end_time, the final analysis, the final save
finalize_interview(analysis_ok, save_ok, handler_save_ok) ==
    /\ conduct_pc = "finalize"
    /\ LET session == [interview_session EXCEPT !.status = "completed", !.end_time = "utcnow"]
       IN  IF analysis_ok /\ save_ok
           THEN /\ interview_session' = session
                /\ saved' = save_session(saved, session, TRUE)
                /\ conduct_pc' = "report"
           ELSE except_handler(session, saved, handler_save_ok)
    /\ section_index' = section_index
    /\ UNCHANGED <<voice_vars, live_vars, adk_vars, id_vars>>

\* _generate_interview_report, then `return session`
generate_interview_report(report_ok, handler_save_ok) ==
    /\ conduct_pc = "report"
    /\ IF report_ok
       THEN /\ conduct_pc' = "returned"
            /\ UNCHANGED <<interview_session, saved>>
       ELSE except_handler(interview_session, saved, handler_save_ok)
    /\ section_index' = section_index
    /\ UNCHANGED <<voice_vars, live_vars, adk_vars, id_vars>>

InitConduct == VoiceIdle /\ LiveIdle /\ AdkIdle /\ OthersIdle

NextConduct ==
    \/ \E save_ok, handler_save_ok \in BOOLEAN : conduct_interview(save_ok, handler_save_ok)
    \/ \E section_ok, save_ok, handler_save_ok \in BOOLEAN, follow_ups \in 0..MaxFollowUps :
          conduct_section(section_ok, follow_ups, save_ok, handler_save_ok)
    \/ \E analysis_ok, save_ok, handler_save_ok \in BOOLEAN :
          finalize_interview(analysis_ok, save_ok, handler_save_ok)
    \/ \E report_ok, handler_save_ok \in BOOLEAN :
          generate_interview_report(report_ok, handler_save_ok)

SpecConduct == InitConduct /\ [][NextConduct]_vars

(***************************************************************************)
(* The session ids of start_live_voice_interview (voice_interview_agent.py)*)
(* under a clock, specification SpecIds.                                   *)
(***************************************************************************)
\* resolution of the model's clock, its range, and the number of sessions created
TicksPerSecond == 2
MaxTicks == 5
MaxCreated == 3

StartupIds == {1, 2}

\* datetime.now().strftime('%Y%m%d_%H%M%S'): the time of day cut to the whole second
strftime(t) == t \div TicksPerSecond

\* f"voice_interview_{startup_id}_{...}"
session_id(startup_id, t) == <<"voice_interview", startup_id, strftime(t)>>

\* time passes
tick ==
    /\ wall_clock < MaxTicks
    /\ wall_clock' = wall_clock + 1
    /\ UNCHANGED <<created, voice_vars, live_vars, adk_vars, platform_vars>>

\* one call: the conversation_state dict it returns
Ids_start_live_voice_interview(startup_id) ==
    /\ Len(created) < MaxCreated
    /\ created' = Append(created, [session_id    |-> session_id(startup_id, wall_clock),
                                   startup_id    |-> startup_id,
                                   start_time    |-> wall_clock,
                                   current_topic |-> "introduction"])
    /\ UNCHANGED <<wall_clock, voice_vars, live_vars, adk_vars, platform_vars>>

InitIds == VoiceIdle /\ LiveIdle /\ AdkIdle /\ OthersIdle

NextIds ==
    \/ tick
    \/ \E startup_id \in StartupIds : Ids_start_live_voice_interview(startup_id)

SpecIds == InitIds /\ [][NextIds]_vars

(***************************************************************************)
(* Properties of the voice interview session (specification Spec).         *)
(***************************************************************************)
\* the topic the session was on when its first answer came in
FirstTopic == conversation_history[1].topic

\* the latest founder entry (every call appends a founder and an interviewer entry)
LastAnswer == conversation_history[Len(conversation_history) - 1]

\* C1: every process_founder_response call moves current_topic forward along the
\* fixed order or leaves it: its position never decreases, whatever topic of the
\* order (or the terminal marker) the session is on.
C1_TopicNeverMovesBack ==
    [][Position(current_topic') >= Position(current_topic)]_vars

\* C1 witness: a session that has advanced past the topic it started on
C1_Witness_Advanced ==
    /\ conversation_history # <<>>
    /\ Position(current_topic) > Position(FirstTopic)
    /\ current_topic # Terminal

\* a long, specific, on-topic answer: at least the 150-word coverage target, no
\* follow-up needed, every coverage keyword of its topic mentioned
NominalAnswer(msg) ==
    /\ msg.content.wc >= 150
    /\ ~msg.analysis.needs_follow_up
    /\ expected_keywords(msg.topic) \subseteq msg.content.toks

AllAnswersNominal ==
    \A i \in 1..Len(conversation_history) :
        IsFounder(conversation_history[i]) => NominalAnswer(conversation_history[i])

\* C2 (as claimed): a session created by start_live_voice_interview whose subject
\* gives only long, specific, on-topic answers moves on through the topics; in
\* particular, after MaxExchanges such answers it has left the first topic.
C2_NominalRunLeavesIntroduction ==
    (/\ origin = "start"
     /\ AllAnswersNominal
     /\ Len(FounderResponses(conversation_history)) >= MaxExchanges)
    => Position(current_topic) >= 1

\* C5: a topic without a subject turn has coverage 0, and no call lowers the
\* coverage score of any topic.
NoSubjectTurn(topic) ==
    \A i \in 1..Len(conversation_history) :
        ~(IsFounder(conversation_history[i]) /\ conversation_history[i].topic = topic)

C5_CoverageZeroThenNonDecreasing ==
    /\ [](\A t \in AllTopics :
            NoSubjectTurn(t) => calculate_topic_coverage(SessionData, t) = 0)
    /\ [][\A t \in AllTopics :
            calculate_topic_coverage(SessionData', t)
                >= calculate_topic_coverage(SessionData, t)]_vars

\* C5 witness: two subject turns on one topic, of which the second was short, and
\* a positive coverage score for it
C5_Witness_TwoTurnsCovered ==
    /\ Len(conversation_history) = 4
    /\ conversation_history[1].topic = conversation_history[3].topic
    /\ conversation_history[1].content.wc = 150
    /\ conversation_history[3].content.wc = 19
    /\ calculate_topic_coverage(SessionData, conversation_history[1].topic) > 40

\* C6: calculate_rapport_level does not raise and returns a value in [0, 1] on
\* every reachable history, 0.5 on the empty one; the stored rapport is in [0, 1].
C6_RapportInUnitInterval ==
    /\ ~calculate_rapport_level_raises(conversation_history)
    /\ calculate_rapport_level(conversation_history) \in 0..100
    /\ rapport_level \in 0..100
    /\ (conversation_history = <<>> =>
            calculate_rapport_level(conversation_history) = 50)

\* C6 witness: long, wholly positive answers, for which both terms are at their cap
C6_Witness_FullRapport ==
    /\ Len(conversation_history) >= 4
    /\ conversation_history[1].content.wc = 201
    /\ rapport_level = 100

\* C8: every call, returning success or error, leaves the recorded entries in
\* place: the history before the call is a prefix of the history after it.
C8_HistoryAppendOnly ==
    [][IsPrefix(conversation_history, conversation_history')]_vars

\* C8 witness: a call that returned error on a session that already had entries
C8_Witness_ErrorAfterEntries ==
    /\ result.status = "error"
    /\ Len(conversation_history) = 4

\* C9: current_topic is always one of the nine topics or the terminal marker.
C9_TopicInFlow == current_topic \in AllTopics

\* C9 witness: the terminal marker, reached by a call
C9_Witness_ReachedTerminal ==
    /\ conversation_history # <<>>
    /\ FirstTopic = "vision_strategy"
    /\ current_topic = Terminal

(***************************************************************************)
(* Properties of the console drivers (specification SpecLive).             *)
(***************************************************************************)
\* the founder's response is the stop command "stop interview" and nothing else
SaidStopInterview(input) ==
    input.kind = "text" /\ input.u.whole /\ input.u.says = "stop interview"

\* the attempt gave no utterance: silence, a failed transcription or input,
\* or an empty line
NoUtterance(input) ==
    \/ input.kind \in {"timeout", "unknown_value", "input_error"}
    \/ input.kind = "text" /\ input.u.wc = 0

\* the session is in its terminal state
SessionTerminal(session_data) ==
    session_data.current_topic = "conclusion" \/ ~session_data.interview_active

RECURSIVE CurrentQuestion(_)
\* the question the founder was last asked
CurrentQuestion(said) ==
    IF said = <<>> THEN None
    ELSE IF said[Len(said)].kind \in {"opening", "question"} THEN said[Len(said)]
    ELSE CurrentQuestion(SubSeq(said, 1, Len(said) - 1))

C4_NoUtteranceReemitsQuestion ==
    [][(live_pc = "listen" /\ NoUtterance(heard'))
       => /\ live_session_data' = live_session_data
          /\ transcript' = Append(transcript, CurrentQuestion(transcript))]_vars

(***************************************************************************)
(* Properties of the InterviewAgent (specification SpecAdk).               *)
(***************************************************************************)
\* two successive calls of the report synthesizer with no response recorded
\* in between (rows are only ever added)
SameSessionCalls(i) == reports[i].rows = reports[i + 1].rows

\* the report without the date of its generation
WithoutDate(report) == [report EXCEPT !.interview_summary.interview_date = 0]

C10_CompletionRunsExactlyOnce ==
    /\ completion_runs <= 1
    /\ (Len(db_responses) >= Len(INVESTMENT_QUESTIONS) /\ calls > Len(INVESTMENT_QUESTIONS))
          => completion_runs = 1

\* C11 as stated: once six process_founder_response calls on the session have
\* succeeded (six response rows are stored), the next process_founder_response
\* call returns interview_completed = true together with the summary report.
C11_NextCallCompletesInterview ==
    [][(Len(db_responses) >= Len(INVESTMENT_QUESTIONS) /\ calls' = calls + 1)
          => /\ DictGet(adk_result', "interview_completed", FALSE) = TRUE
             /\ "summary_report" \in DOMAIN adk_result']_vars

\* C12 as stated: once a session has reached the terminal topic through a
\* process_founder_response call (the report is a function of the session and
\* producing it changes nothing), no later call changes its history,
\* insights, rapport or current_topic.
C12_TerminalSessionImmutable ==
    [][(current_topic = Terminal /\ conversation_history # <<>>)
          => UNCHANGED <<conversation_history, insights_gathered, rapport_level,
                         current_topic>>]_vars

(***************************************************************************)
(* Properties of several sessions (specification SpecSessions).            *)
(***************************************************************************)
\* C13: two distinct sessions share no mutable object, and a step that
\* changes a field of one session (current_topic, history, insights,
\* rapport) leaves every field of every other session unchanged.
C13_SessionsIsolated ==
    /\ [](\A i, j \in DOMAIN session_refs :
             i # j => ObjectsOf(heap, session_refs[i]) \cap ObjectsOf(heap, session_refs[j]) = {})
    /\ [][\A i, j \in DOMAIN session_refs :
             (i # j /\ Deref(heap', session_refs[i]) # Deref(heap, session_refs[i]))
                => Deref(heap', session_refs[j]) = Deref(heap, session_refs[j])]_vars

\* C13 witness: two sessions, each changed by calls of its own, on different
\* topics with different histories, insights and rapport
C13_Witness_TwoSessionsDiverged ==
    /\ Len(session_refs) = 2
    /\ Len(Deref(heap, session_refs[1]).conversation_history) = 4
    /\ Len(Deref(heap, session_refs[2]).conversation_history) = 2
    /\ Deref(heap, session_refs[1]).current_topic = "conclusion"
    /\ Deref(heap, session_refs[2]).current_topic = "introduction"
    /\ Deref(heap, session_refs[1]).insights_gathered # Deref(heap, session_refs[2]).insights_gathered
    /\ Deref(heap, session_refs[1]).rapport_level # Deref(heap, session_refs[2]).rapport_level

(***************************************************************************)
(* Properties of the response analysis and of the session it feeds         *)
(* (specification Spec).                                                   *)
(***************************************************************************)
\* a founder entry whose response was empty
EmptyUtterance(msg) == IsFounder(msg) /\ msg.content.wc = 0

\* a founder entry recorded on a topic the keyword table of
\* extract_topic_insights has no entry for
TopicNotInTaxonomy(msg) == IsFounder(msg) /\ topic_keywords(msg.topic) = {}

LastTurn == conversation_history[Len(conversation_history)]

\* C15: a call with an utterance of fewer than 20 words, on any of the nine
\* topics or the terminal marker and whatever the utterance holds, records an
\* analysis with needs_follow_up true and an interviewer turn that is a
\* follow-up on the same topic, and leaves current_topic as it was; on the
\* nine topics the call returns that turn with status success.
C15_ShortAnswerGetsFollowUp ==
    [][LastAnswer'.content.wc < 20
          => /\ LastAnswer'.analysis.needs_follow_up
             /\ LastTurn'.speaker = "interviewer"
             /\ LastTurn'.question_type = "follow_up"
             /\ LastTurn'.topic = current_topic
             /\ current_topic' = current_topic
             /\ current_topic # Terminal
                   => /\ result'.status = "success"
                      /\ result'.type = "follow_up"
                      /\ result'.current_topic = current_topic]_vars

\* C15 witness: a 19-word answer of high quality (three specificity
\* indicators), so that the word count alone asks for the follow-up
C15_Witness_ShortButSpecific ==
    /\ conversation_history # <<>>
    /\ LastAnswer.content.wc = 19
    /\ LastAnswer.analysis.quality_score >= 60
    /\ LastAnswer.topic = "business_model"
    /\ LastTurn.question_type = "follow_up"
    /\ current_topic = "business_model"

\* a founder entry holding the response "We charge $99 per month and our
\* customers love the product." given on business_model
PricingAnswer(msg) ==
    /\ IsFounder(msg)
    /\ msg.topic = "business_model"
    /\ msg.content = PricingUtterance

\* C16 as stated: the analysis of that response on business_model sets the
\* insight flags pricing and customers and gives a quality above 0.4.
C16_PricingAndCustomersFlagged ==
    \A i \in 1..Len(conversation_history) :
       PricingAnswer(conversation_history[i])
          => /\ {"pricing", "customers"} \subseteq conversation_history[i].analysis.insights
             /\ conversation_history[i].analysis.quality_score > 40

\* C16 as amended: the analysis of that response on business_model sets the
\* insight flag customers, not pricing, and gives a quality above 0.4.
C16_CustomersFlagged ==
    \A i \in 1..Len(conversation_history) :
       PricingAnswer(conversation_history[i])
          => /\ "customers" \in conversation_history[i].analysis.insights
             /\ "pricing" \notin conversation_history[i].analysis.insights
             /\ conversation_history[i].analysis.quality_score > 40

\* C16 witness: the response has been analysed: 11 words, quality 0.48
C16_Witness_PricingResponseAnalysed ==
    /\ conversation_history # <<>>
    /\ PricingAnswer(LastAnswer)
    /\ LastAnswer.analysis.word_count = 11
    /\ LastAnswer.analysis.quality_score = 48
    /\ LastAnswer.content.toks = {"$", "customers", "love", "product"}

\* C17: over every process_founder_response call the insight map only grows:
\* every flag set before the call is set after it, and the map after the call
\* is the union of the map before it with the flags extracted from the new
\* utterance (the keywords of the topic the utterance was given on that occur
\* in it).
C17_InsightsGrowByUnion ==
    [][/\ insights_gathered \subseteq insights_gathered'
       /\ insights_gathered' =
             insights_gathered \cup (topic_keywords(current_topic) \cap LastAnswer'.content.toks)]_vars

\* C17 witness: a first response set flags that the second did not repeat, and
\* all of them are still set
C17_Witness_EarlierFlagsKept ==
    /\ Len(conversation_history) = 4
    /\ conversation_history[3].analysis.insights # {}
    /\ conversation_history[1].analysis.insights \ conversation_history[3].analysis.insights # {}
    /\ conversation_history[1].analysis.insights \subseteq insights_gathered
    /\ conversation_history[3].analysis.insights \subseteq insights_gathered

\* C18: a call on a session on topic T moves current_topic to the successor
\* of T in the fixed order (the terminal marker after the last topic) exactly
\* when the analysis of the turn has needs_follow_up false and the coverage of
\* T, the turn included, is at least 0.7; otherwise current_topic stays T.
C18_AdvanceIffCoveredAndNoFollowUp ==
    [][IF /\ ~LastAnswer'.analysis.needs_follow_up
          /\ calculate_topic_coverage(SessionData', current_topic) >= 70
       THEN /\ current_topic # Terminal
            /\ Position(current_topic') = Position(current_topic) + 1
       ELSE current_topic' = current_topic]_vars

\* C18 witness: a session on business_model that stayed there after a first
\* answer and moved to market_opportunity after the second
C18_Witness_StayedThenAdvanced ==
    /\ Len(conversation_history) = 4
    /\ conversation_history[1].topic = "business_model"
    /\ conversation_history[3].topic = "business_model"
    /\ ~conversation_history[1].analysis.needs_follow_up
    /\ current_topic = "market_opportunity"

\* C19 as stated: a call on a session on the last topic, vision_strategy,
\* whose analysis needs no follow-up and that brings the coverage of the
\* topic to at least 0.7, returns status success with the interviewer's
\* message and sets current_topic to the terminal marker.
C19_LastTopicTransitionSucceeds ==
    [][(/\ current_topic = "vision_strategy"
        /\ ~LastAnswer'.analysis.needs_follow_up
        /\ calculate_topic_coverage(SessionData', current_topic) >= 70)
          => /\ result'.status = "success"
             /\ result'.next_message = LastTurn'.content
             /\ current_topic' = Terminal]_vars

\* 0.4 * min(average words per founder turn / 100, 1) + 0.6 * (average
\* sentiment of the founder turns) over the founder turns of history, as
\* hundredths rounded to the nearest
WeightedCombination(history) ==
    LET turns == FounderResponses(history)
        n == Len(turns)
        W == SumWords(turns)
        S == SumSentiments(turns)
    IN  RoundHalfEven(Min(2 * W, 200 * n) * S[2] + 300 * S[1], 5 * n * S[2])

\* C20 as stated: after every process_founder_response call, the first one on
\* a session included, the session's rapport is (to two decimals) the weighted
\* combination over all founder turns of the history, the turn just recorded
\* included.
C20_RapportIsWeightedCombination ==
    [][rapport_level' = WeightedCombination(conversation_history')]_vars

(***************************************************************************)
(* Properties of the question generator (specification Spec).              *)
(***************************************************************************)
\* the interviewer turns at i and i + 2 are follow-ups on the same topic, the
\* session having stayed on it
SuccessiveFollowUps(i) ==
    /\ conversation_history[i].speaker = "interviewer"
    /\ conversation_history[i + 2].speaker = "interviewer"
    /\ conversation_history[i].question_type = "follow_up"
    /\ conversation_history[i + 2].question_type = "follow_up"
    /\ conversation_history[i].topic = conversation_history[i + 2].topic

\* C21 as stated: successive follow-ups on the same topic are successive
\* entries of the follow-up list, the index rotating modulo the list's length.
C21_FollowUpsRotate ==
    \A i \in 1..(Len(conversation_history) - 2) :
       SuccessiveFollowUps(i)
          => conversation_history[i + 2].content.index
                = (conversation_history[i].content.index + 1) % FollowUpTableLen

\* the number of primary questions of topic asked by the turns before i
PrimaryAskedBefore(i, topic) ==
    Cardinality({j \in 1..(i - 1) :
                    /\ conversation_history[j].speaker = "interviewer"
                    /\ conversation_history[j].topic = topic
                    /\ conversation_history[j].question_type = "continuation"
                    /\ conversation_history[j].content.kind = "primary"})

\* C22 as stated: a continuation turn on topic T asks the first entry of T's
\* primary list that has not been asked on T yet; only when all of them have
\* been asked does it take a question from the follow-up list.
C22_PrimaryBankInOrder ==
    \A i \in 1..Len(conversation_history) :
       LET turn == conversation_history[i]
           asked == PrimaryAskedBefore(i, turn.topic)
       IN  (turn.speaker = "interviewer" /\ turn.question_type = "continuation")
              => IF asked < PrimaryLen(turn.topic)
                 THEN turn.content.kind = "primary" /\ turn.content.index = asked
                 ELSE turn.content.kind # "primary"

(***************************************************************************)
(* Further properties of the console drivers (specification SpecLive).     *)
(***************************************************************************)
\* the founder cancels: the stop command alone, or Ctrl-C at the prompt
Cancellation(input) ==
    /\ input # None
    /\ SaidStopInterview(input) \/ input.kind = "keyboard_interrupt"

\* C23: on a cancellation, at whichever wait of the conduct method it comes
\* (microphone test, interview loop, final response), no analysis is run and
\* recorded: the history gets no entry, and the session's insights, rapport
\* and topic (hence every score computed from them) keep their values.
C23_CancellationBypassesAnalysis ==
    [][Cancellation(heard')
          => /\ live_session_data'.conversation_history = live_session_data.conversation_history
             /\ live_session_data'.insights_gathered = live_session_data.insights_gathered
             /\ live_session_data'.rapport_level = live_session_data.rapport_level
             /\ live_session_data'.current_topic = live_session_data.current_topic]_vars

\* C23 witness: the interview was cancelled after exchanges that had gathered
\* insights and raised the rapport, and the summary shows them
C23_Witness_CancelledMidInterview ==
    /\ live_pc = "done"
    /\ Cancellation(heard)
    /\ Len(live_session_data.conversation_history) >= 4
    /\ live_session_data.insights_gathered # {}
    /\ live_session_data.rapport_level > 50
    /\ summary.areas_discussed = live_session_data.insights_gathered
    /\ summary.final_rapport_level = live_session_data.rapport_level

(***************************************************************************)
(* Properties of the question generator called on its own (specification   *)
(* SpecQuestions).                                                         *)
(***************************************************************************)
\* the message names an entry that exists: its list is there (no KeyError),
\* is not empty (no division by zero) and has the index (no IndexError)
QuestionExists(message) ==
    CASE message.kind = "follow_ups_table" ->
            message.topic \in FollowUpTableTopics /\ message.index \in 0..(FollowUpTableLen - 1)
      [] message.kind = "primary" ->
            message.topic \in BankTopics /\ message.index \in 0..(PrimaryLen(message.topic) - 1)
      [] message.kind = "follow_ups" ->
            message.topic \in BankTopics /\ message.index \in 0..(FollowUpsLen(message.topic) - 1)
      [] message.kind = "default_follow_up" -> message.index = 0
      [] OTHER -> FALSE

\* C24: on every topic, "introduction" and "conclusion" included, and with any
\* number of questions already asked, generate_follow_up_question and
\* generate_topic_continuation return a question of an existing list, on the
\* topic they were called for; a list used up is cycled through or replaced
\* by a fallback list.
C24_QuestionAlwaysReturned ==
    result.status = "returned"
       => /\ QuestionExists(result.question.message)
          /\ result.question.topic = current_topic
          /\ result.question.type \in {"follow_up", "continuation"}

\* C24 witness: five questions were already asked on a topic with a primary
\* list of four, and the continuation comes from the topic's follow-up list
C24_Witness_PrimaryListUsedUp ==
    /\ result.status = "returned"
    /\ Len(conversation_history) = 5
    /\ current_topic = "team_execution"
    /\ result.question.type = "continuation"
    /\ result.question.message.kind = "follow_ups"
    /\ result.question.message.index = 2

C26_ErrorLeavesSessionUnchanged ==
    [][result'.status = "error"
          => /\ conversation_history' = conversation_history
             /\ current_topic' = current_topic
             /\ insights_gathered' = insights_gathered
             /\ rapport_level' = rapport_level]_vars

(***************************************************************************)
(* Further properties of the live interview drivers (specification         *)
(* SpecLive).                                                              *)
(***************************************************************************)
\* the subject's answers recorded so far in the driver's session
RealAnswers ==
    SelectSeq(live_session_data.conversation_history,
              LAMBDA msg : msg.speaker = "founder")

\* the driver has spoken its thanks after a stop command or an interrupt
StoppedBySubject ==
    \E i \in 1..Len(transcript) : transcript[i].kind = "thanks"

\* C27 as stated: in LiveTextInterviewer.conduct_live_interview an attempt
\* without utterance does not use up an exchange: unless the subject stops the
\* interview, it ends only after six answers were recorded and the conclusion
\* topic was reached, however many attempts were empty.
C27_EmptyAttemptsUseNoExchange ==
    (/\ interviewer = "LiveTextInterviewer"
     /\ live_pc = "done"
     /\ ~StoppedBySubject)
       => /\ Len(RealAnswers) = max_exchanges
          /\ live_session_data.current_topic = "conclusion"

\* C28 as stated: a call of process_founder_response on a session on topic T
\* leaves calculate_topic_coverage(T') unchanged for every topic T' other
\* than T.
C28_OtherTopicsCoverageUnchanged ==
    [][\A topic \in AllTopics \ {current_topic} :
          calculate_topic_coverage(SessionData', topic)
             = calculate_topic_coverage(SessionData, topic)]_vars

(***************************************************************************)
(* Properties of StartupInterviewAgent.conduct_interview (specification    *)
(* SpecConduct) and of the session ids (specification SpecIds).            *)
(***************************************************************************)
\* C29 as stated: once the session was saved with status completed, it is
\* never afterwards saved with status cancelled.
C29_CompletedNeverCancelled ==
    \A i, j \in 1..Len(saved) :
       (i < j /\ saved[i].status = "completed") => saved[j].status # "cancelled"

\* C30 as stated: two distinct sessions created by start_live_voice_interview
\* never have the same session_id.
C30_SessionIdsDistinct ==
    \A i, j \in 1..Len(created) :
       i # j => created[i].session_id # created[j].session_id

====
